---- MODULE Spec2Model ----
(***************************************************************************)
(* Request admission and retry orchestration of the Perplexity C++ client: *)
(*   RateLimiter                          (src/include/rateLimiter.h)      *)
(*   Client::handle_http_response and                                      *)
(*   Client::execute_request_with_retry   (src/include/client.h)           *)
(*   HttpClient::post / initialize        (src/include/HttpClient.h)       *)
(*                                                                         *)
(* Time.  std::chrono::steady_clock is a discrete, non-decreasing clock;   *)
(* the action Tick advances it by one clock period.  Two reads of the      *)
(* clock with no Tick between them return the same time point.  The code   *)
(* only ever compares a stored time point tp with now or now - 1min, so a  *)
(* time point is kept as its age now - tp, saturated at Minute + 1 (any    *)
(* age above Minute is "before the cutoff").  A sleep_for is a countdown   *)
(* of clock periods; the sleeper may resume at any time after it reached   *)
(* zero (sleep_for blocks for at least the requested duration).            *)
(***************************************************************************)
EXTENDS Integers, Sequences, FiniteSets, TLC

\* ---------------------------------------------------------------- bounds
Threads == {1, 2}
\* the threads that run execute_request_with_retry in Spec
Clients == {1}
\* largest capacity a limiter is constructed with or set to
MaxCap == 2
\* largest max_retries of a configuration
MaxRetries == 2
\* public operations one thread starts in a behaviour
MaxCalls == 2
\* a backoff countdown is tracked for at most this many clock periods; the
\* rest of a longer sleep is covered by the sleeper resuming late
MaxSleep == 3
\* std::chrono::minutes(1) in clock periods (scaled down)
Minute == 4
\* one millisecond in clock periods (scaled down)
MsTicks == 2
\* add_message is called while the request has fewer messages than this
MaxMessages == 2

\* ------------------------------------------------------------- the state
VARIABLES
    request_times_,            \* RateLimiter: deque of time points, as ages
    max_requests_per_minute_,  \* RateLimiter: capacity
    enabled_,                  \* RateLimiter: bypass flag
    mutex_,                    \* RateLimiter: 0 = free, else the holder
    thrown,                    \* RateLimiter: what its constructor threw
    max_retries_,              \* Config::max_retries_
    pc,                        \* per thread: position in the code
    caller,                    \* per thread: who called wait_if_needed
    param,                     \* per thread: argument of its set_enabled call
    parsed,                    \* per thread: calls of chat that have been through
                               \* the try block after execute_request_with_retry
    config,                    \* the Config object of the program, if it has one
    constructed,               \* the constructor of the Client has returned
    given,                     \* the last call on Config or Client and its argument
    request,                   \* the ChatRequest object of the program
    body,                      \* what the last call of to_json returned, if it did
    what,                      \* per thread: the message of the exception that
                               \* handle_http_response threw, if it threw
    stream,                    \* per thread: the lines of the response that
                               \* chat_stream read
    delivered,                 \* per thread: the chunks chat_stream gave to the
                               \* callback, in order
    sleep_left,                \* per thread: clock periods left of a sleep_for
    ret,                       \* per thread: value returned by the last limiter call
    calls,                     \* per thread: public operations started
    attempt,                   \* execute_request_with_retry: int attempt
    last_exception,            \* execute_request_with_retry: exception_ptr
    result,                    \* execute_request_with_retry: returned payload
    raised,                    \* execute_request_with_retry: propagated error
    outcomes,                  \* history: outcome of each attempt of the run
    slept,                     \* history: backoff sleeps of the run, in ms
    admits,                    \* history: wait_if_needed calls of the run
    events,                    \* history: what the run has done, in order
    pushed,                    \* history: push_backs of the current wait_if_needed
    sawEnabled,                \* history: enabled_ as read by the current call
    suspended,                 \* history: the current wait_if_needed called sleep_for
    napped,                    \* history: clock periods the current call asked to sleep
    due,                       \* history: clock periods until the oldest time point
                               \* the current call met in a full window is a minute old
    admitted,                  \* history: ages of all recorded time points < Minute
    aged,                      \* history: a recorded time point is a minute old
    undisturbed                \* history: constructed, enabled throughout, capacity
                               \* unchanged, no reset

vars == <<request_times_, max_requests_per_minute_, enabled_, mutex_, thrown,
          max_retries_, pc, caller, param, parsed, config, constructed, given,
          request, body, what, stream, delivered,
          sleep_left, ret, calls, attempt,
          last_exception, result, raised, outcomes, slept, admits, events,
          pushed, sawEnabled, suspended, napped, due, admitted, aged,
          undisturbed>>

limiterVars == <<request_times_, max_requests_per_minute_, enabled_, mutex_>>
runVars == <<attempt, last_exception, result, raised, outcomes, slept, admits>>
retryVars == <<runVars, events>>
\* what only the constructors, set_enabled and chat write
buildVars == <<config, constructed, given>>
requestVars == <<request, body>>
replyVars == <<what, stream, delivered>>
restVars == <<parsed, buildVars, requestVars, replyVars>>
quietVars == <<thrown, max_retries_, param, restVars>>

\* ------------------------------------------------------------- helpers
Min(a, b) == IF a < b THEN a ELSE b

\* 32-bit int arithmetic (two's complement)
MaxInt32 == 2147483647
MinInt32 == -2147483647 - 1

RECURSIVE Pow2(_)
Pow2(n) == IF n = 0 THEN 1 ELSE 2 * Pow2(n - 1)

\* 1 << n for 0 <= n <= 31 (n = 31 sets the sign bit)
Shl1(n) == IF n < 31 THEN Pow2(n) ELSE MinInt32

\* x * y wrapped to 32 bits, for 0 <= y < 2^15: the product is formed from
\* the two 16-bit halves of x
Mul32(x, y) ==
    LET lo == (x % 65536) * y
        hi == (((x \div 65536) % 65536) * y + lo \div 65536) % 65536
    IN  ((IF hi >= 32768 THEN hi - 65536 ELSE hi) * 65536) + (lo % 65536)

\* std::optional<int>: empty, or holding n
NullOpt == <<>>
Some(n) == <<n>>

\* An exception object: its class, the status code it carries (0 stands for
\* std::nullopt or for a class without one), RateLimitError's
\* retry_after_seconds_ (NullOpt for the other classes) and the site that
\* constructed it.
Exception(kind, status, retry_after, site) ==
    [kind |-> kind, status |-> status, retry_after |-> retry_after, site |-> site]
NoError == Exception("none", 0, NullOpt, "none")
ValidationError(site) == Exception("Validation", 0, NullOpt, site)
AuthenticationError(site) == Exception("Authentication", 0, NullOpt, site)
RateLimitError(retry_after, site) == Exception("RateLimit", 0, retry_after, site)
ServerError(status_code, site) == Exception("Server", status_code, NullOpt, site)
NetworkError(status_code, site) == Exception("Network", status_code, NullOpt, site)
TimeoutError(site) == Exception("Timeout", 0, NullOpt, site)
ConfigurationError(site) == Exception("Configuration", 0, NullOpt, site)
JsonParseError(site) == Exception("JsonParse", 0, NullOpt, site)
\* the classes derived from PerplexityException
ErrorKinds == {"Configuration", "Network", "Authentication", "RateLimit",
               "Validation", "JsonParse", "Server", "Timeout"}

\* ------------------------------------------------------ RateLimiter
\* request_times_.front() < now - minutes(1)
BeforeCutoff(age) == age > Minute

\* cleanup_old_requests with `if` in place of `while`
cleanup_once(q) ==
    IF q # <<>> /\ BeforeCutoff(Head(q)) THEN Tail(q) ELSE q

RECURSIVE cleanup_old_requests(_)
cleanup_old_requests(q) ==
    IF q # <<>> /\ BeforeCutoff(Head(q))
    THEN cleanup_old_requests(Tail(q))
    ELSE q

\* StillInside with the wait ending one clock period early
StillInside_early(age) == age < Minute - 1

\* wait_until > now, for wait_until = oldest + minutes(1)
StillInside(age) == age < Minute

\* WaitDuration taking one millisecond more than the time that is left
WaitDuration_past(age) == ((Minute - age) \div MsTicks + 1) * MsTicks

\* duration_cast<milliseconds>(wait_until - now), in clock periods
WaitDuration(age) == ((Minute - age) \div MsTicks) * MsTicks

\* ------------------------------------------------------------- frames
threadVars == <<pc, caller, sleep_left, ret, calls>>
callVars == <<pushed, sawEnabled, suspended, napped, due>>

\* a call with its string or integer argument
Call(op, text, number) == [op |-> op, text |-> text, number |-> number]
NoCall == Call("none", "", 0)

NoRet == [op |-> "none", val |-> 0, error |-> "none"]
Returned(op, val) == [op |-> op, val |-> val, error |-> "none"]
Threw(op, e) == [op |-> op, val |-> 0, error |-> e.kind]
BoolVal(b) == IF b THEN 1 ELSE 0

\* a thread may start another public operation of a limiter that exists
CanStart(t) == thrown = NoError /\ pc[t] = "idle" /\ calls[t] < MaxCalls

\* where wait_if_needed returns to
AfterWait(t, who) ==
    IF who = "retry" THEN "r_call"
    ELSE IF who = "stream" THEN "s_call"
    ELSE "idle"

\* --------------------------------------------- RateLimiter::wait_if_needed
\* entry: `if (!enabled_) return;` (read without the mutex).  enabled_ is a
\* plain bool; a read that races with the store of set_enabled returns the
\* value before or after the store, which are the two orders of this step
\* and set_enabled_write.
\* WaitEnter without the early return of a disabled limiter
WaitEnter_no_bypass(t, who) ==
    /\ caller' = [caller EXCEPT ![t] = who]
    /\ sawEnabled' = [sawEnabled EXCEPT ![t] = enabled_]
    /\ pushed' = [pushed EXCEPT ![t] = 0]
    /\ suspended' = [suspended EXCEPT ![t] = FALSE]
    /\ napped' = [napped EXCEPT ![t] = 0]
    /\ due' = [due EXCEPT ![t] = 0]
    /\ pc' = [pc EXCEPT ![t] = "w_lock"]

WaitEnter(t, who) ==
    /\ caller' = [caller EXCEPT ![t] = who]
    /\ sawEnabled' = [sawEnabled EXCEPT ![t] = enabled_]
    /\ pushed' = [pushed EXCEPT ![t] = 0]
    /\ suspended' = [suspended EXCEPT ![t] = FALSE]
    /\ napped' = [napped EXCEPT ![t] = 0]
    /\ due' = [due EXCEPT ![t] =
                 IF /\ enabled_
                    /\ Len(request_times_) >= max_requests_per_minute_
                    /\ \A i \in DOMAIN request_times_ : request_times_[i] < Minute
                 THEN Minute - Head(request_times_)
                 ELSE 0]
    /\ pc' = [pc EXCEPT ![t] = IF enabled_ THEN "w_lock" ELSE AfterWait(t, who)]

\* a direct call (chat_stream, or through Client::get_rate_limiter)
wait_if_needed(t) ==
    /\ CanStart(t)
    /\ WaitEnter(t, "direct")
    /\ calls' = [calls EXCEPT ![t] = @ + 1]
    /\ ret' = [ret EXCEPT ![t] = IF enabled_ THEN NoRet
                                 ELSE Returned("wait_if_needed", 0)]
    /\ UNCHANGED <<limiterVars, quietVars, aged, sleep_left, retryVars,
                   admitted, undisturbed>>

\* std::unique_lock lock(mutex_); cleanup_old_requests();
wait_lock(t) ==
    /\ pc[t] = "w_lock"
    /\ mutex_ = 0
    /\ mutex_' = t
    /\ request_times_' = cleanup_old_requests(request_times_)
    /\ pc' = [pc EXCEPT ![t] = "w_loop"]
    /\ UNCHANGED <<max_requests_per_minute_, enabled_, quietVars, aged, caller,
                   sleep_left, ret, calls, retryVars, callVars, admitted,
                   undisturbed>>

\* wait_loop with `continue` in place of `break`
wait_loop_no_break(t) ==
    /\ pc[t] = "w_loop"
    /\ mutex_ = t
    /\ IF Len(request_times_) >= max_requests_per_minute_
       THEN LET oldest == Head(request_times_) IN
            IF StillInside(oldest)
            THEN \* lock.unlock(); sleep_for(wait_duration)
                 /\ mutex_' = 0
                 /\ sleep_left' = [sleep_left EXCEPT ![t] = WaitDuration(oldest)]
                 /\ suspended' = [suspended EXCEPT ![t] = TRUE]
                 /\ napped' = [napped EXCEPT ![t] = @ + WaitDuration(oldest)]
                 /\ pc' = [pc EXCEPT ![t] = "w_sleep"]
            ELSE \* no break: the loop goes round again
                 /\ pc' = [pc EXCEPT ![t] = "w_loop"]
                 /\ UNCHANGED <<mutex_, sleep_left, suspended, napped>>
       ELSE /\ pc' = [pc EXCEPT ![t] = "w_push"]
            /\ UNCHANGED <<mutex_, sleep_left, suspended, napped>>
    /\ UNCHANGED <<request_times_, max_requests_per_minute_, enabled_,
                   quietVars, aged, caller, ret, calls, retryVars, pushed,
                   sawEnabled, due, admitted, undisturbed>>

\* wait_loop with the sleep_for inside the locked region
wait_loop_sleep_locked(t) ==
    /\ pc[t] = "w_loop"
    /\ mutex_ = t
    /\ IF Len(request_times_) >= max_requests_per_minute_
       THEN LET oldest == Head(request_times_) IN
            IF StillInside(oldest)
            THEN /\ sleep_left' = [sleep_left EXCEPT ![t] = WaitDuration(oldest)]
                 /\ suspended' = [suspended EXCEPT ![t] = TRUE]
                 /\ napped' = [napped EXCEPT ![t] = @ + WaitDuration(oldest)]
                 /\ pc' = [pc EXCEPT ![t] = "w_sleep"]
                 /\ UNCHANGED mutex_
            ELSE /\ pc' = [pc EXCEPT ![t] = "w_push"]
                 /\ UNCHANGED <<mutex_, sleep_left, suspended, napped>>
       ELSE /\ pc' = [pc EXCEPT ![t] = "w_push"]
            /\ UNCHANGED <<mutex_, sleep_left, suspended, napped>>
    /\ UNCHANGED <<request_times_, max_requests_per_minute_, enabled_,
                   quietVars, aged, caller, ret, calls, retryVars, pushed,
                   sawEnabled, due, admitted, undisturbed>>

\* the while test and one pass of the body up to the unlock or the break
wait_loop(t) ==
    /\ pc[t] = "w_loop"
    /\ mutex_ = t
    /\ IF Len(request_times_) >= max_requests_per_minute_
       THEN LET oldest == Head(request_times_) IN
            IF StillInside(oldest)
            THEN \* lock.unlock(); sleep_for(wait_duration)
                 /\ mutex_' = 0
                 /\ sleep_left' = [sleep_left EXCEPT ![t] = WaitDuration(oldest)]
                 /\ suspended' = [suspended EXCEPT ![t] = TRUE]
                 /\ napped' = [napped EXCEPT ![t] = @ + WaitDuration(oldest)]
                 /\ pc' = [pc EXCEPT ![t] = "w_sleep"]
            ELSE \* break
                 /\ pc' = [pc EXCEPT ![t] = "w_push"]
                 /\ UNCHANGED <<mutex_, sleep_left, suspended, napped>>
       ELSE /\ pc' = [pc EXCEPT ![t] = "w_push"]
            /\ UNCHANGED <<mutex_, sleep_left, suspended, napped>>
    /\ UNCHANGED <<request_times_, max_requests_per_minute_, enabled_,
                   quietVars, aged, caller, ret, calls, retryVars, pushed,
                   sawEnabled, due, admitted, undisturbed>>

\* sleep_for has returned: lock.lock(); cleanup_old_requests();
wait_wake(t) ==
    /\ pc[t] = "w_sleep"
    /\ sleep_left[t] = 0
    /\ mutex_ = 0
    /\ mutex_' = t
    /\ request_times_' = cleanup_old_requests(request_times_)
    /\ pc' = [pc EXCEPT ![t] = "w_loop"]
    /\ UNCHANGED <<max_requests_per_minute_, enabled_, quietVars, aged, caller,
                   sleep_left, ret, calls, retryVars, callVars, admitted,
                   undisturbed>>

\* request_times_.push_back(steady_clock::now()); the lock is released on return
wait_push(t) ==
    /\ pc[t] = "w_push"
    /\ mutex_ = t
    /\ request_times_' = Append(request_times_, 0)
    /\ admitted' = Append(admitted, 0)
    /\ pushed' = [pushed EXCEPT ![t] = @ + 1]
    /\ events' = [events EXCEPT ![t] =
                    IF caller[t] = "retry" THEN @ \o <<"stamp", "admitted">>
                    ELSE @]
    /\ mutex_' = 0
    /\ pc' = [pc EXCEPT ![t] = AfterWait(t, caller[t])]
    /\ ret' = [ret EXCEPT ![t] = Returned("wait_if_needed", 0)]
    /\ UNCHANGED <<max_requests_per_minute_, enabled_, quietVars, aged, caller,
                   sleep_left, calls, runVars, sawEnabled, suspended,
                   napped, due, undisturbed>>

\* ------------------------------------------ the other RateLimiter operations
\* can_make_request without the test of enabled_
can_make_request_no_bypass(t) ==
    /\ CanStart(t)
    /\ calls' = [calls EXCEPT ![t] = @ + 1]
    /\ pc' = [pc EXCEPT ![t] = "c_lock"]
    /\ ret' = [ret EXCEPT ![t] = NoRet]
    /\ UNCHANGED <<limiterVars, quietVars, aged, caller, sleep_left, retryVars,
                   callVars, admitted, undisturbed>>

\* can_make_request, up to `if (!enabled_) return true;`
can_make_request(t) ==
    /\ CanStart(t)
    /\ calls' = [calls EXCEPT ![t] = @ + 1]
    /\ IF enabled_
       THEN /\ pc' = [pc EXCEPT ![t] = "c_lock"]
            /\ ret' = [ret EXCEPT ![t] = NoRet]
       ELSE /\ pc' = pc
            /\ ret' = [ret EXCEPT ![t] = Returned("can_make_request", 1)]
    /\ UNCHANGED <<limiterVars, quietVars, aged, caller, sleep_left, retryVars,
                   callVars, admitted, undisturbed>>

\* can_make_request_locked with size() <= capacity as its test
can_make_request_locked_le(t) ==
    /\ pc[t] = "c_lock"
    /\ mutex_ = 0
    /\ request_times_' = cleanup_old_requests(request_times_)
    /\ ret' = [ret EXCEPT ![t] = Returned("can_make_request",
                 BoolVal(Len(request_times_') <= max_requests_per_minute_))]
    /\ pc' = [pc EXCEPT ![t] = "idle"]
    /\ UNCHANGED <<max_requests_per_minute_, enabled_, mutex_, quietVars, aged,
                   caller, sleep_left, calls, retryVars, callVars, admitted,
                   undisturbed>>

\* can_make_request_locked taking the slot it finds free
can_make_request_locked_take(t) ==
    /\ pc[t] = "c_lock"
    /\ mutex_ = 0
    /\ LET q == cleanup_old_requests(request_times_) IN
        /\ request_times_' = IF Len(q) < max_requests_per_minute_
                              THEN Append(q, 0) ELSE q
        /\ ret' = [ret EXCEPT ![t] = Returned("can_make_request",
                     BoolVal(Len(q) < max_requests_per_minute_))]
    /\ pc' = [pc EXCEPT ![t] = "idle"]
    /\ UNCHANGED <<max_requests_per_minute_, enabled_, mutex_, quietVars, aged,
                   caller, sleep_left, calls, retryVars, callVars, admitted,
                   undisturbed>>

\* can_make_request, from the lock_guard on
can_make_request_locked(t) ==
    /\ pc[t] = "c_lock"
    /\ mutex_ = 0
    /\ request_times_' = cleanup_old_requests(request_times_)
    /\ ret' = [ret EXCEPT ![t] = Returned("can_make_request",
                 BoolVal(Len(request_times_') < max_requests_per_minute_))]
    /\ pc' = [pc EXCEPT ![t] = "idle"]
    /\ UNCHANGED <<max_requests_per_minute_, enabled_, mutex_, quietVars, aged,
                   caller, sleep_left, calls, retryVars, callVars, admitted,
                   undisturbed>>

get_current_request_count(t) ==
    /\ CanStart(t)
    /\ mutex_ = 0
    /\ calls' = [calls EXCEPT ![t] = @ + 1]
    /\ request_times_' = cleanup_old_requests(request_times_)
    /\ ret' = [ret EXCEPT ![t] = Returned("get_current_request_count",
                                          Len(request_times_'))]
    /\ UNCHANGED <<max_requests_per_minute_, enabled_, mutex_, quietVars, aged,
                   pc, caller, sleep_left, retryVars, callVars, admitted,
                   undisturbed>>

\* set_enabled(enabled): std::lock_guard lock(mutex_);
set_enabled(t, enabled) ==
    /\ CanStart(t)
    /\ mutex_ = 0
    /\ mutex_' = t
    /\ calls' = [calls EXCEPT ![t] = @ + 1]
    /\ param' = [param EXCEPT ![t] = enabled]
    /\ pc' = [pc EXCEPT ![t] = "e_write"]
    /\ ret' = [ret EXCEPT ![t] = NoRet]
    /\ UNCHANGED <<request_times_, max_requests_per_minute_, enabled_, thrown,
                   aged, max_retries_, restVars, caller, sleep_left,
                   retryVars, callVars, admitted, undisturbed>>

\* enabled_ = enabled; the lock is released on return
set_enabled_write(t) ==
    /\ pc[t] = "e_write"
    /\ mutex_ = t
    /\ enabled_' = param[t]
    /\ undisturbed' = (undisturbed /\ param[t])
    /\ mutex_' = 0
    /\ param' = [param EXCEPT ![t] = FALSE]
    /\ pc' = [pc EXCEPT ![t] = "idle"]
    /\ ret' = [ret EXCEPT ![t] = Returned("set_enabled", 0)]
    /\ UNCHANGED <<request_times_, max_requests_per_minute_, thrown, aged,
                   max_retries_, restVars, caller, sleep_left, calls,
                   retryVars, callVars, admitted>>

\* set_limit rejecting only a negative capacity
set_limit_accepts_zero(t, max_requests_per_minute) ==
    /\ CanStart(t)
    /\ calls' = [calls EXCEPT ![t] = @ + 1]
    /\ IF max_requests_per_minute < 0
       THEN /\ ret' = [ret EXCEPT ![t] = Threw("set_limit", ConfigurationError("set_limit"))]
            /\ UNCHANGED <<max_requests_per_minute_, undisturbed>>
       ELSE /\ mutex_ = 0
            /\ max_requests_per_minute_' = max_requests_per_minute
            /\ undisturbed' = (undisturbed /\
                   max_requests_per_minute = max_requests_per_minute_)
            /\ ret' = [ret EXCEPT ![t] = Returned("set_limit", 0)]
    /\ UNCHANGED <<request_times_, enabled_, mutex_, quietVars, aged, pc,
                   caller, sleep_left, retryVars, callVars, admitted>>

\* set_limit(max_requests_per_minute): the argument is checked before the
\* lock_guard is taken
set_limit(t, max_requests_per_minute) ==
    /\ CanStart(t)
    /\ calls' = [calls EXCEPT ![t] = @ + 1]
    /\ IF max_requests_per_minute <= 0
       THEN /\ ret' = [ret EXCEPT ![t] = Threw("set_limit", ConfigurationError("set_limit"))]
            /\ UNCHANGED <<max_requests_per_minute_, undisturbed>>
       ELSE /\ mutex_ = 0
            /\ max_requests_per_minute_' = max_requests_per_minute
            /\ undisturbed' = (undisturbed /\
                   max_requests_per_minute = max_requests_per_minute_)
            /\ ret' = [ret EXCEPT ![t] = Returned("set_limit", 0)]
    /\ UNCHANGED <<request_times_, enabled_, mutex_, quietVars, aged, pc, caller,
                   sleep_left, retryVars, callVars, admitted>>

\* reset dropping only the time points older than a minute
reset_evict(t) ==
    /\ CanStart(t)
    /\ mutex_ = 0
    /\ calls' = [calls EXCEPT ![t] = @ + 1]
    /\ request_times_' = cleanup_old_requests(request_times_)
    /\ undisturbed' = FALSE
    /\ ret' = [ret EXCEPT ![t] = Returned("reset", 0)]
    /\ UNCHANGED <<max_requests_per_minute_, enabled_, mutex_, quietVars, aged,
                   pc, caller, sleep_left, retryVars, callVars, admitted>>

\* reset without the lock_guard
reset_unlocked(t) ==
    /\ CanStart(t)
    /\ calls' = [calls EXCEPT ![t] = @ + 1]
    /\ request_times_' = <<>>
    /\ undisturbed' = FALSE
    /\ ret' = [ret EXCEPT ![t] = Returned("reset", 0)]
    /\ UNCHANGED <<max_requests_per_minute_, enabled_, mutex_, quietVars, aged,
                   pc, caller, sleep_left, retryVars, callVars, admitted>>

\* std::lock_guard lock(mutex_); request_times_.clear();
reset(t) ==
    /\ CanStart(t)
    /\ mutex_ = 0
    /\ calls' = [calls EXCEPT ![t] = @ + 1]
    /\ request_times_' = <<>>
    /\ undisturbed' = FALSE
    /\ ret' = [ret EXCEPT ![t] = Returned("reset", 0)]
    /\ UNCHANGED <<max_requests_per_minute_, enabled_, mutex_, quietVars, aged,
                   pc, caller, sleep_left, retryVars, callVars, admitted>>

\* ------------------------------------------------- the transport outcome
\* A response body, as far as handle_http_response looks at it for a 429:
\* text that json::parse rejects, or a JSON value without a "retry_after"
\* member, or one whose member is an integer that fits int, or one whose
\* member is a string.
Body(kind, val) == [kind |-> kind, val |-> val]
NotJson == Body("not_json", 0)
NoMember == Body("no_member", 0)
IntMember(n) == Body("int", n)
StringMember == Body("string", 0)
\* a body that is a chat completion: id, model, created and, in choices[0],
\* a message with its content
ChatPayload == Body("chat_response", 0)
\* a chat completion whose choices[0].message is an object without "content"
NoContent == Body("no_content", 0)

\* What one attempt meets: HttpClient::initialize fails ("handle"), to_json
\* in the request function throws before the post ("validate"),
\* curl_easy_perform fails with CURLE_OPERATION_TIMEDOUT ("timeout") or with
\* another code ("connect"), or an exchange completes with a status code and
\* a body ("response").
Outcome(how, status, response_body) ==
    [how |-> how, status |-> status, body |-> response_body]

Statuses == {200, 400, 401, 403, 429, 503, 404}

Outcomes ==
    {Outcome(h, 0, NoMember) : h \in {"handle", "timeout", "connect"}}
    \cup {Outcome("response", s, IF s = 200 THEN ChatPayload ELSE NoMember) :
              s \in Statuses}

\* ------------------------------------------ Client::handle_http_response
\* case 429: json::parse throws on text that is not JSON and get<int>() throws
\* on a member that is not a number; catch (...) leaves retry_after empty
retry_after_of(response_body) ==
    IF response_body.kind = "not_json" THEN NullOpt
    ELSE IF response_body.kind = "no_member" THEN NullOpt
    ELSE IF response_body.kind = "int" THEN Some(response_body.val)
    ELSE NullOpt

\* handle_http_response with the success range starting above 200
handle_http_response_gt200(status_code, response_body) ==
    IF status_code > 200 /\ status_code < 300 THEN NoError
    ELSE IF status_code = 400 THEN ValidationError("http")
    ELSE IF status_code \in {401, 403} THEN AuthenticationError("http")
    ELSE IF status_code = 429
         THEN RateLimitError(retry_after_of(response_body), "http")
    ELSE IF status_code \in {500, 502, 503, 504} THEN ServerError(status_code, "http")
    ELSE NetworkError(status_code, "http")

\* handle_http_response with every 5xx status thrown as ServerError
handle_http_response_5xx(status_code, response_body) ==
    IF status_code >= 200 /\ status_code < 300 THEN NoError
    ELSE IF status_code = 400 THEN ValidationError("http")
    ELSE IF status_code \in {401, 403} THEN AuthenticationError("http")
    ELSE IF status_code = 429
         THEN RateLimitError(retry_after_of(response_body), "http")
    ELSE IF status_code \in 500..599 THEN ServerError(status_code, "http")
    ELSE NetworkError(status_code, "http")

\* the exception thrown for a status code, NoError when it returns
handle_http_response(status_code, response_body) ==
    IF status_code >= 200 /\ status_code < 300 THEN NoError
    ELSE IF status_code = 400 THEN ValidationError("http")
    ELSE IF status_code \in {401, 403} THEN AuthenticationError("http")
    ELSE IF status_code = 429
         THEN RateLimitError(retry_after_of(response_body), "http")
    ELSE IF status_code \in {500, 502, 503, 504} THEN ServerError(status_code, "http")
    ELSE NetworkError(status_code, "http")

\* AttemptError with HttpClient::post throwing a plain std::runtime_error
AttemptError_untyped(o) ==
    IF o.how = "handle" THEN NetworkError(0, "initialize")
    ELSE IF o.how = "validate" THEN ValidationError("validate")
    ELSE IF o.how = "timeout" THEN TimeoutError("post")
    ELSE IF o.how = "connect" THEN Exception("runtime_error", 0, NullOpt, "post")
    ELSE handle_http_response(o.status, o.body)

\* the exception leaving the try block of one attempt, NoError when the
\* attempt reaches `return response`
AttemptError(o) ==
    IF o.how = "handle" THEN NetworkError(0, "initialize")
    ELSE IF o.how = "validate" THEN ValidationError("validate")
    ELSE IF o.how = "timeout" THEN TimeoutError("post")
    ELSE IF o.how = "connect" THEN NetworkError(0, "post")
    ELSE handle_http_response(o.status, o.body)

\* the catch clauses with AuthenticationError handled like ServerError
Handler_retry_auth(e) ==
    IF e.kind \in {"RateLimit", "Validation"} THEN "rethrow"
    ELSE IF e.kind \in {"Authentication", "Server", "Network"} THEN "retry"
    ELSE "none"

\* the catch clauses without the one for NetworkError
Handler_no_network(e) ==
    IF e.kind = "RateLimit" THEN "rethrow"
    ELSE IF e.kind = "Authentication" THEN "rethrow"
    ELSE IF e.kind = "Validation" THEN "rethrow"
    ELSE IF e.kind = "Server" THEN "retry"
    ELSE "none"

\* the catch clauses of execute_request_with_retry, in order
Handler(e) ==
    IF e.kind = "RateLimit" THEN "rethrow"
    ELSE IF e.kind = "Authentication" THEN "rethrow"
    ELSE IF e.kind = "Validation" THEN "rethrow"
    ELSE IF e.kind = "Server" THEN "retry"
    ELSE IF e.kind = "Network" THEN "retry"
    ELSE "none"

\* std::chrono::milliseconds(100 * (1 << attempt)), int arithmetic
BaseBackoffMs == 100
BackoffMs_shifted(a) == Mul32(Shl1(a + 1), BaseBackoffMs)
BackoffMs(a) == Mul32(Shl1(a), BaseBackoffMs)

\* the countdown of sleep_for(wait_ms), in clock periods
SleepTicks(ms) == Min(ms * MsTicks, MaxSleep)

\* last_exception = std::current_exception()
Record_first(last, e) == IF last # NoError THEN last ELSE e
Record(last, e) == e

\* while (attempt <= config_.get_max_retries())
Continue_lt(a, max_retries) == a < max_retries
Continue(a, max_retries) == a <= max_retries

\* -------------------------------------- Client::execute_request_with_retry
\* int attempt = 0; std::exception_ptr last_exception;
execute_request_with_retry(t) ==
    /\ CanStart(t)
    /\ calls' = [calls EXCEPT ![t] = @ + 1]
    /\ pc' = [pc EXCEPT ![t] = "r_loop"]
    /\ attempt' = [attempt EXCEPT ![t] = 0]
    /\ last_exception' = [last_exception EXCEPT ![t] = NoError]
    /\ result' = [result EXCEPT ![t] = 0]
    /\ raised' = [raised EXCEPT ![t] = NoError]
    /\ outcomes' = [outcomes EXCEPT ![t] = <<>>]
    /\ slept' = [slept EXCEPT ![t] = <<>>]
    /\ admits' = [admits EXCEPT ![t] = 0]
    /\ events' = [events EXCEPT ![t] = <<>>]
    /\ UNCHANGED <<limiterVars, quietVars, aged, caller, sleep_left, ret,
                   callVars, admitted, undisturbed>>

\* the error thrown after the loop
AfterLoop(last) ==
    IF last # NoError THEN last ELSE NetworkError(0, "exhausted")

\* retry_loop that calls wait_if_needed before the retries only
retry_loop_admit_retries(t) ==
    /\ pc[t] = "r_loop"
    /\ IF Continue(attempt[t], max_retries_) /\ attempt[t] > 0
       THEN /\ WaitEnter(t, "retry")
            /\ admits' = [admits EXCEPT ![t] = @ + 1]
            /\ events' = [events EXCEPT ![t] =
                            IF enabled_ THEN Append(@, "admit")
                            ELSE @ \o <<"admit", "admitted">>]
            /\ UNCHANGED raised
       ELSE IF Continue(attempt[t], max_retries_)
       THEN /\ pc' = [pc EXCEPT ![t] = "r_call"]
            /\ UNCHANGED <<raised, admits, events, caller, callVars>>
       ELSE /\ raised' = [raised EXCEPT ![t] = AfterLoop(last_exception[t])]
            /\ pc' = [pc EXCEPT ![t] = "idle"]
            /\ UNCHANGED <<admits, events, caller, callVars>>
    /\ UNCHANGED <<limiterVars, quietVars, aged, sleep_left, ret, calls, attempt,
                   last_exception, result, outcomes, slept, admitted,
                   undisturbed>>

\* retry_loop that calls wait_if_needed in the first iteration only
retry_loop_admit_once(t) ==
    /\ pc[t] = "r_loop"
    /\ IF Continue(attempt[t], max_retries_) /\ attempt[t] = 0
       THEN /\ WaitEnter(t, "retry")
            /\ admits' = [admits EXCEPT ![t] = @ + 1]
            /\ events' = [events EXCEPT ![t] =
                            IF enabled_ THEN Append(@, "admit")
                            ELSE @ \o <<"admit", "admitted">>]
            /\ UNCHANGED raised
       ELSE IF Continue(attempt[t], max_retries_)
       THEN /\ pc' = [pc EXCEPT ![t] = "r_call"]
            /\ UNCHANGED <<raised, admits, events, caller, callVars>>
       ELSE /\ raised' = [raised EXCEPT ![t] = AfterLoop(last_exception[t])]
            /\ pc' = [pc EXCEPT ![t] = "idle"]
            /\ UNCHANGED <<admits, events, caller, callVars>>
    /\ UNCHANGED <<limiterVars, quietVars, aged, sleep_left, ret, calls, attempt,
                   last_exception, result, outcomes, slept, admitted,
                   undisturbed>>

\* the while test; then rate_limiter_.wait_if_needed() is entered, or the
\* loop is left and the function throws
retry_loop(t) ==
    /\ pc[t] = "r_loop"
    /\ IF Continue(attempt[t], max_retries_)
       THEN /\ WaitEnter(t, "retry")
            /\ admits' = [admits EXCEPT ![t] = @ + 1]
            /\ events' = [events EXCEPT ![t] =
                            IF enabled_ THEN Append(@, "admit")
                            ELSE @ \o <<"admit", "admitted">>]
            /\ UNCHANGED raised
       ELSE /\ raised' = [raised EXCEPT ![t] = AfterLoop(last_exception[t])]
            /\ pc' = [pc EXCEPT ![t] = "idle"]
            /\ UNCHANGED <<admits, events, caller, callVars>>
    /\ UNCHANGED <<limiterVars, quietVars, aged, sleep_left, ret, calls, attempt,
                   last_exception, result, outcomes, slept, admitted,
                   undisturbed>>

\* the rest of the try block and the catch clause it lands in; the payload
\* of the n-th attempt is written n
retry_attempt(t, o) ==
    /\ pc[t] = "r_call"
    /\ outcomes' = [outcomes EXCEPT ![t] = Append(@, o)]
    /\ events' = [events EXCEPT ![t] =
                    IF /\ AttemptError(o) # NoError
                       /\ Handler(AttemptError(o)) = "retry"
                       /\ attempt[t] < max_retries_
                    THEN @ \o <<"attempt", "sleep">>
                    ELSE Append(@, "attempt")]
    /\ LET e == AttemptError(o)
           payload == Len(outcomes[t]) + 1
       IN
        IF e = NoError
        THEN /\ result' = [result EXCEPT ![t] = payload]
             /\ pc' = [pc EXCEPT ![t] = "idle"]
             /\ UNCHANGED <<raised, last_exception, attempt, slept, sleep_left>>
        ELSE IF Handler(e) = "retry"
        THEN /\ last_exception' = [last_exception EXCEPT ![t] = Record(@, e)]
             /\ IF attempt[t] < max_retries_
                THEN /\ slept' = [slept EXCEPT ![t] = Append(@, BackoffMs(attempt[t]))]
                     /\ sleep_left' = [sleep_left EXCEPT ![t] =
                                           SleepTicks(BackoffMs(attempt[t]))]
                     /\ pc' = [pc EXCEPT ![t] = "r_backoff"]
                     /\ UNCHANGED attempt
                ELSE /\ attempt' = [attempt EXCEPT ![t] = @ + 1]
                     /\ pc' = [pc EXCEPT ![t] = "r_loop"]
                     /\ UNCHANGED <<slept, sleep_left>>
             /\ UNCHANGED <<result, raised>>
        ELSE \* rethrown by its catch clause, or caught by none
             /\ raised' = [raised EXCEPT ![t] = e]
             /\ pc' = [pc EXCEPT ![t] = "idle"]
             /\ UNCHANGED <<result, last_exception, attempt, slept, sleep_left>>
    /\ UNCHANGED <<limiterVars, quietVars, aged, caller, ret, calls, admits,
                   callVars, admitted, undisturbed>>

\* retry_backoff with one attempt counter for all threads
retry_backoff_shared(t) ==
    /\ pc[t] = "r_backoff"
    /\ sleep_left[t] = 0
    /\ attempt' = [u \in Threads |-> attempt[u] + 1]
    /\ events' = [events EXCEPT ![t] = Append(@, "woke")]
    /\ pc' = [pc EXCEPT ![t] = "r_loop"]
    /\ UNCHANGED <<limiterVars, quietVars, aged, caller, sleep_left, ret, calls,
                   last_exception, result, raised, outcomes, slept, admits,
                   callVars, admitted, undisturbed>>

\* the backoff sleep_for has returned: attempt++
retry_backoff(t) ==
    /\ pc[t] = "r_backoff"
    /\ sleep_left[t] = 0
    /\ attempt' = [attempt EXCEPT ![t] = @ + 1]
    /\ events' = [events EXCEPT ![t] = Append(@, "woke")]
    /\ pc' = [pc EXCEPT ![t] = "r_loop"]
    /\ UNCHANGED <<limiterVars, quietVars, aged, caller, sleep_left, ret, calls,
                   last_exception, result, raised, outcomes, slept, admits,
                   callVars, admitted, undisturbed>>

\* ------------------------------------------------------------ Client::chat
\* json::parse(response_json) and ChatResponse::from_json(j): what the two
\* calls can end in.  Text that is not JSON makes parse throw; a body of the
\* other kinds that is no chat completion lacks "id", and j.at("id") throws;
\* both are json::exception.  choice["message"]["content"] indexes a const
\* object: with "content" absent the behaviour is undefined, an assertion
\* ends the process or the reference read is garbage (get<std::string>()
\* on it returns or throws).
from_json(response_body) ==
    IF response_body.kind = "chat_response" THEN {"ChatResponse"}
    ELSE IF response_body.kind = "no_content"
    THEN {"abort", "ChatResponse", "json::exception"}
    ELSE {"json::exception"}

\* the process was ended inside chat
Aborted == [op |-> "chat", val |-> 0, error |-> "abort"]

\* execute_request_with_retry has returned a text to chat, which has not
\* been through the try block yet
Unparsed(t) == pc[t] = "idle" /\ result[t] # 0 /\ parsed[t] < calls[t]

\* chat (or chat_async) is called: execute_request_with_retry is entered
chat(t) ==
    /\ ~Unparsed(t)
    /\ ret[t] # Aborted
    /\ execute_request_with_retry(t)

\* the try block of chat on the text execute_request_with_retry returned;
\* catch (const json::exception&) throws JsonParseError
chat_parse(t) ==
    /\ Unparsed(t)
    /\ parsed' = [parsed EXCEPT ![t] = calls[t]]
    /\ \E r \in from_json(outcomes[t][Len(outcomes[t])].body) :
          ret' = [ret EXCEPT ![t] =
                    IF r = "abort" THEN Aborted
                    ELSE IF r = "ChatResponse" THEN Returned("chat", result[t])
                    ELSE Threw("chat", JsonParseError("chat"))]
    /\ UNCHANGED <<limiterVars, thrown, max_retries_, param, buildVars,
                   requestVars, replyVars, aged, pc, caller, sleep_left, calls, retryVars, callVars,
                   admitted, undisturbed>>

\* ------------------------------------------------------------ the clock
Older(age) == Min(age + 1, Minute + 1)
InWindow(age) == age < Minute

\* steady_clock advances by one period
Tick ==
    /\ request_times_' = [i \in 1..Len(request_times_) |-> Older(request_times_[i])]
    /\ sleep_left' = [t \in Threads |-> IF sleep_left[t] > 0 THEN sleep_left[t] - 1 ELSE 0]
    /\ admitted' = SelectSeq([i \in 1..Len(admitted) |-> Older(admitted[i])], InWindow)
    /\ aged' = (aged \/ \E i \in DOMAIN admitted : ~InWindow(Older(admitted[i])))
    /\ due' = [t \in Threads |-> IF due[t] > 0 THEN due[t] - 1 ELSE 0]
    /\ UNCHANGED <<max_requests_per_minute_, enabled_, mutex_, quietVars,
                   pc, caller, ret, calls, retryVars, pushed, sawEnabled,
                   suspended, napped, undisturbed>>

\* ------------------------------------------------------- class ChatRequest
\* struct Message, made by Message(role, content) or one of the factories
Message(role, content) == [role |-> role, content |-> content]

\* ChatRequest() = default; explicit ChatRequest(std::string model): the
\* members validate reads
ChatRequest(model_) == [model_ |-> model_, messages_ |-> <<>>]

\* void validate() const, without the test of messages_
ChatRequest_validate_model(r) ==
    IF r.model_ = "" THEN ValidationError("validate") ELSE NoError

\* void validate() const
ChatRequest_validate(r) ==
    IF r.model_ = "" THEN ValidationError("validate")
    ELSE IF r.messages_ = <<>> THEN ValidationError("validate")
    ELSE NoError

\* json to_json() const: validate(), then the object is filled in (none of
\* the optional members is set)
to_json(r) ==
    IF ChatRequest_validate(r) # NoError THEN NullOpt
    ELSE Some([model |-> r.model_,
               messages |-> [i \in DOMAIN r.messages_ |->
                               [role |-> r.messages_[i].role,
                                content |-> r.messages_[i].content]],
               stream |-> FALSE, return_citations |-> TRUE,
               return_images |-> FALSE])

\* a call on the ChatRequest by thread t that returns, or throws e, and
\* leaves the request r and the text b behind
Requested(t, op, e, r, b) ==
    /\ pc[t] = "idle"
    /\ request' = r
    /\ body' = b
    /\ ret' = [ret EXCEPT ![t] = IF e = NoError THEN Returned(op, 0)
                                 ELSE Threw(op, e)]
    /\ UNCHANGED <<limiterVars, thrown, max_retries_, param, parsed,
                   buildVars, replyVars, aged, pc, caller, sleep_left, calls, retryVars,
                   callVars, admitted, undisturbed>>

\* ChatRequest req(model): a new object
ChatRequest_model(t, m) ==
    Requested(t, "ChatRequest", NoError, ChatRequest(m), body)

\* ChatRequest& model(std::string m)
model(t, m) ==
    Requested(t, "model", NoError, [request EXCEPT !.model_ = m], body)

\* ChatRequest& add_message(Message msg), add_message(role, content)
add_message(t, msg) ==
    /\ Len(request.messages_) < MaxMessages
    /\ Requested(t, "add_message", NoError,
                 [request EXCEPT !.messages_ = Append(@, msg)], body)

\* ChatRequest& messages(std::vector<Message> msgs)
messages(t, msgs) ==
    Requested(t, "messages", NoError, [request EXCEPT !.messages_ = msgs], body)

\* req.validate()
call_validate(t) ==
    Requested(t, "validate", ChatRequest_validate(request), request, body)

\* req.to_json()
call_to_json(t) ==
    Requested(t, "to_json", ChatRequest_validate(request), request,
              to_json(request))

\* ------------------------------------------------------- specifications
InitLocals ==
    /\ pc = [t \in Threads |-> "idle"]
    /\ caller = [t \in Threads |-> "none"]
    /\ sleep_left = [t \in Threads |-> 0]
    /\ ret = [t \in Threads |-> NoRet]
    /\ calls = [t \in Threads |-> 0]
    /\ attempt = [t \in Threads |-> 0]
    /\ last_exception = [t \in Threads |-> NoError]
    /\ result = [t \in Threads |-> 0]
    /\ raised = [t \in Threads |-> NoError]
    /\ slept = [t \in Threads |-> <<>>]
    /\ admits = [t \in Threads |-> 0]
    /\ pushed = [t \in Threads |-> 0]
    /\ suspended = [t \in Threads |-> FALSE]
    /\ napped = [t \in Threads |-> 0]
    /\ sawEnabled = [t \in Threads |-> FALSE]
    /\ due = [t \in Threads |-> 0]
    /\ events = [t \in Threads |-> <<>>]
    /\ param = [t \in Threads |-> FALSE]
    /\ parsed = [t \in Threads |-> 0]
    /\ config = NullOpt
    /\ given = NoCall
    /\ request = ChatRequest("")
    /\ body = NullOpt
    /\ what = [t \in Threads |-> NullOpt]
    /\ stream = [t \in Threads |-> <<>>]
    /\ delivered = [t \in Threads |-> <<>>]

\* no thread has called anything yet
InitThreads ==
    /\ InitLocals
    /\ constructed = TRUE
    /\ outcomes = [t \in Threads |-> <<>>]

\* RateLimiter(max_requests_per_minute, enabled): the members are
\* initialised from the arguments, then a capacity <= 0 is rejected
\* the constructor rejecting only a negative capacity
RateLimiter_accepts_zero(max_requests_per_minute, enabled) ==
    /\ request_times_ = <<>>
    /\ max_requests_per_minute_ = max_requests_per_minute
    /\ enabled_ = enabled
    /\ mutex_ = 0
    /\ thrown = IF max_requests_per_minute < 0
                THEN ConfigurationError("RateLimiter")
                ELSE NoError

RateLimiter(max_requests_per_minute, enabled) ==
    /\ request_times_ = <<>>
    /\ max_requests_per_minute_ = max_requests_per_minute
    /\ enabled_ = enabled
    /\ mutex_ = 0
    /\ thrown = IF max_requests_per_minute <= 0
                THEN ConfigurationError("RateLimiter")
                ELSE NoError

\* the limiter after its constructor has run, or the error it threw
InitRateLimiter ==
    /\ \E c \in -1..MaxCap, e \in BOOLEAN : RateLimiter(c, e)
    /\ admitted = <<>>
    /\ aged = FALSE
    /\ undisturbed = (thrown = NoError /\ enabled_)

\* ------------------------------------------------------------ class Config
\* the members with their default initialisers (verify_ssl_, proxy_ and
\* user_agent_ are checked nowhere and left out)
DefaultConfig ==
    [api_key_ |-> "", base_url_ |-> "https://api.perplexity.ai",
     timeout_ |-> 30, max_retries_ |-> 3, enable_rate_limiting_ |-> TRUE,
     max_requests_per_minute_ |-> 60]

\* a call on the Config object by thread t returns or throws e, and the
\* Config becomes c; nothing else changes
Built(t, call, e, c) ==
    /\ ~constructed
    /\ given' = call
    /\ config' = IF e = NoError THEN c ELSE config
    /\ ret' = [ret EXCEPT ![t] = IF e = NoError THEN Returned(call.op, 0)
                                 ELSE Threw(call.op, e)]
    /\ UNCHANGED <<limiterVars, thrown, max_retries_, param, parsed,
                   requestVars, constructed, replyVars, aged, pc, caller, sleep_left, calls, retryVars,
                   callVars, admitted, undisturbed>>

\* Config() = default
Config_default(t) ==
    /\ config = NullOpt
    /\ Built(t, Call("Config", "default", 0), NoError, Some(DefaultConfig))

\* explicit Config(std::string api_key)
Config_api_key(t, api_key) ==
    /\ config = NullOpt
    /\ Built(t, Call("Config", api_key, 0),
             IF api_key = "" THEN ConfigurationError("Config") ELSE NoError,
             Some([DefaultConfig EXCEPT !.api_key_ = api_key]))

\* Config& api_key(std::string key)
api_key(t, key) ==
    /\ config # NullOpt
    /\ Built(t, Call("api_key", key, 0),
             IF key = "" THEN ConfigurationError("api_key") ELSE NoError,
             Some([config[1] EXCEPT !.api_key_ = key]))

\* Config& base_url(std::string url)
base_url(t, url) ==
    /\ config # NullOpt
    /\ Built(t, Call("base_url", url, 0),
             IF url = "" THEN ConfigurationError("base_url") ELSE NoError,
             Some([config[1] EXCEPT !.base_url_ = url]))

\* Config& timeout(std::chrono::seconds t)
timeout(t, seconds) ==
    /\ config # NullOpt
    /\ Built(t, Call("timeout", "", seconds),
             IF seconds <= 0 THEN ConfigurationError("timeout") ELSE NoError,
             Some([config[1] EXCEPT !.timeout_ = seconds]))

\* max_retries without the test of its argument
max_retries_unchecked(t, retries) ==
    /\ config # NullOpt
    /\ Built(t, Call("max_retries", "", retries), NoError,
             Some([config[1] EXCEPT !.max_retries_ = retries]))

\* Config& max_retries(int retries)
max_retries(t, retries) ==
    /\ config # NullOpt
    /\ Built(t, Call("max_retries", "", retries),
             IF retries < 0 THEN ConfigurationError("max_retries") ELSE NoError,
             Some([config[1] EXCEPT !.max_retries_ = retries]))

\* Config& enable_rate_limiting(bool enable)
enable_rate_limiting(t, enable) ==
    /\ config # NullOpt
    /\ Built(t, Call("enable_rate_limiting", "", BoolVal(enable)), NoError,
             Some([config[1] EXCEPT !.enable_rate_limiting_ = enable]))

\* Config& max_requests_per_minute(int max_requests)
max_requests_per_minute(t, max_requests) ==
    /\ config # NullOpt
    /\ Built(t, Call("max_requests_per_minute", "", max_requests),
             IF max_requests <= 0
             THEN ConfigurationError("max_requests_per_minute") ELSE NoError,
             Some([config[1] EXCEPT !.max_requests_per_minute_ = max_requests]))

\* void validate() const, without the test of api_key_
validate_no_key(c) ==
    IF c.base_url_ = "" THEN ConfigurationError("validate")
    ELSE IF c.timeout_ <= 0 THEN ConfigurationError("validate")
    ELSE NoError

\* void validate() const
validate(c) ==
    IF c.api_key_ = "" THEN ConfigurationError("validate")
    ELSE IF c.base_url_ = "" THEN ConfigurationError("validate")
    ELSE IF c.timeout_ <= 0 THEN ConfigurationError("validate")
    ELSE NoError

\* explicit Client(Config config): config_ is initialised, then
\* rate_limiter_, whose constructor may throw, then the body validates
Client_error(c) ==
    IF c.max_requests_per_minute_ <= 0 THEN ConfigurationError("RateLimiter")
    ELSE validate(c)

Client(t) ==
    /\ config # NullOpt
    /\ ~constructed
    /\ pc[t] = "idle"
    /\ given' = Call("Client", "", 0)
    /\ LET c == config[1]
           e == Client_error(c)
       IN  IF e = NoError
           THEN /\ constructed' = TRUE
                /\ request_times_' = <<>>
                /\ max_requests_per_minute_' = c.max_requests_per_minute_
                /\ enabled_' = c.enable_rate_limiting_
                /\ mutex_' = 0
                /\ max_retries_' = c.max_retries_
                /\ undisturbed' = c.enable_rate_limiting_
                /\ ret' = [ret EXCEPT ![t] = Returned("Client", 0)]
           ELSE /\ ret' = [ret EXCEPT ![t] = Threw("Client", e)]
                /\ UNCHANGED <<limiterVars, max_retries_, constructed,
                               undisturbed>>
    /\ UNCHANGED <<thrown, param, parsed, config, requestVars, replyVars, aged, pc,
                   caller, sleep_left, calls, retryVars, callVars, admitted>>

\* threads sharing one RateLimiter and calling its operations
InitLimiter == InitRateLimiter /\ InitThreads /\ max_retries_ = 0

NextLimiter ==
    \/ Tick
    \/ \E t \in Threads :
        \/ wait_if_needed(t)
        \/ wait_lock(t)
        \/ wait_loop(t)
        \/ wait_wake(t)
        \/ wait_push(t)
        \/ can_make_request(t)
        \/ can_make_request_locked(t)
        \/ get_current_request_count(t)
        \/ \E b \in BOOLEAN : set_enabled(t, b)
        \/ set_enabled_write(t)
        \/ \E c \in -1..MaxCap : set_limit(t, c)
        \/ reset(t)

SpecLimiter == InitLimiter /\ [][NextLimiter]_vars

\* two threads sharing one RateLimiter: thread 1 asks for admission and probes
\* (wait_if_needed, can_make_request, get_current_request_count), thread 2
\* reconfigures the limiter (set_enabled, set_limit, reset) and asks for
\* admission too
Requester == 1
Controller == 2

NextShared ==
    \/ Tick
    \/ wait_if_needed(Requester)
    \/ can_make_request(Requester)
    \/ get_current_request_count(Requester)
    \/ wait_if_needed(Controller)
    \/ \E b \in BOOLEAN : set_enabled(Controller, b)
    \/ \E c \in -1..MaxCap : set_limit(Controller, c)
    \/ reset(Controller)
    \/ \E t \in Threads :
        \/ wait_lock(t)
        \/ wait_loop(t)
        \/ wait_wake(t)
        \/ wait_push(t)
        \/ can_make_request_locked(t)
        \/ set_enabled_write(t)

SpecShared == InitLimiter /\ [][NextShared]_vars

\* threads of one Client calling execute_request_with_retry (chat, chat_async)
Init == InitRateLimiter /\ InitThreads /\ max_retries_ \in 0..MaxRetries

Next ==
    \/ Tick
    \/ \E t \in Clients :
        \/ execute_request_with_retry(t)
        \/ retry_loop(t)
        \/ wait_lock(t)
        \/ wait_loop(t)
        \/ wait_wake(t)
        \/ wait_push(t)
        \/ \E o \in Outcomes : retry_attempt(t, o)
        \/ retry_backoff(t)

Spec == Init /\ [][Next]_vars

\* chat on replies that are a chat completion or are not
Payloads == {ChatPayload, NotJson, NoMember, NoContent}
Replies ==
    {Outcome("connect", 0, NoMember)}
    \cup {Outcome("response", 200, b) : b \in Payloads}

NextChat ==
    \/ Tick
    \/ \E t \in Clients :
        \/ chat(t)
        \/ retry_loop(t)
        \/ wait_lock(t)
        \/ wait_loop(t)
        \/ wait_wake(t)
        \/ wait_push(t)
        \/ \E o \in Replies : retry_attempt(t, o)
        \/ retry_backoff(t)
        \/ chat_parse(t)

SpecChat == Init /\ [][NextChat]_vars

\* one thread alone on an enabled limiter that has admitted calls before:
\* the window holds at most as many time points as the capacity it was
\* constructed with, in the order they were recorded, of any age.  The
\* thread calls wait_if_needed and set_limit.
Windows(c) ==
    {w \in UNION {[1..n -> 0..(Minute + 1)] : n \in 0..c} :
        \A i \in 1..(Len(w) - 1) : w[i] >= w[i + 1]}

InitSolo ==
    /\ InitThreads
    /\ max_retries_ = 0
    /\ thrown = NoError
    /\ mutex_ = 0
    /\ enabled_ = TRUE
    /\ undisturbed = TRUE
    /\ max_requests_per_minute_ \in 1..MaxCap
    /\ request_times_ \in Windows(max_requests_per_minute_)
    /\ admitted = SelectSeq(request_times_, InWindow)
    /\ aged = \E i \in DOMAIN request_times_ : ~InWindow(request_times_[i])

NextSolo ==
    \/ Tick
    \/ wait_if_needed(Requester)
    \/ wait_lock(Requester)
    \/ wait_loop(Requester)
    \/ wait_wake(Requester)
    \/ wait_push(Requester)
    \/ \E c \in -1..MaxCap : set_limit(Requester, c)

SpecSolo == InitSolo /\ [][NextSolo]_vars

\* chat_async called once for each thread on one Client: every thread runs
\* chat, and with it execute_request_with_retry, on its own
AsyncReplies ==
    {Outcome("connect", 0, NoMember), Outcome("response", 401, NoMember),
     Outcome("response", 200, ChatPayload)}

NextAsync ==
    \/ Tick
    \/ \E t \in Threads :
        \/ calls[t] = 0 /\ execute_request_with_retry(t)
        \/ retry_loop(t)
        \/ wait_lock(t)
        \/ wait_loop(t)
        \/ wait_wake(t)
        \/ wait_push(t)
        \/ \E o \in AsyncReplies : retry_attempt(t, o)
        \/ retry_backoff(t)

SpecAsync == Init /\ [][NextAsync]_vars

\* a program that makes a Config, calls its setters, constructs a Client
\* from it and calls chat on the Client.  Before the Client is constructed
\* there is no limiter; the Config the program keeps is not touched after it
\* was handed to the Client.
Keys == {"", "key"}
Urls == {"", "url"}
Seconds == {-1, 0, 5}

InitConfig ==
    /\ InitLocals
    /\ constructed = FALSE
    /\ outcomes = [t \in Threads |-> <<>>]
    /\ request_times_ = <<>>
    /\ max_requests_per_minute_ = 0
    /\ enabled_ = FALSE
    /\ mutex_ = 0
    /\ thrown = NoError
    /\ max_retries_ = 0
    /\ admitted = <<>>
    /\ aged = FALSE
    /\ undisturbed = FALSE

NextConfig ==
    \/ Tick
    \/ \E t \in Clients :
        \/ Config_default(t)
        \/ \E k \in Keys : Config_api_key(t, k)
        \/ \E k \in Keys : api_key(t, k)
        \/ \E u \in Urls : base_url(t, u)
        \/ \E n \in Seconds : timeout(t, n)
        \/ \E n \in -1..MaxRetries : max_retries(t, n)
        \/ \E b \in BOOLEAN : enable_rate_limiting(t, b)
        \/ \E n \in -1..MaxCap : max_requests_per_minute(t, n)
        \/ Client(t)
        \/ constructed /\ chat(t)
        \/ retry_loop(t)
        \/ wait_lock(t)
        \/ wait_loop(t)
        \/ wait_wake(t)
        \/ wait_push(t)
        \/ \E o \in Replies : retry_attempt(t, o)
        \/ retry_backoff(t)
        \/ chat_parse(t)

SpecConfig == InitConfig /\ [][NextConfig]_vars

\* a program that makes a ChatRequest, calls its setters, validate and
\* to_json
Models == {"", "sonar"}
Messages == {Message("user", "Hi!"), Message("system", "")}
Vectors == {<<>>} \cup {<<m>> : m \in Messages}

NextRequest ==
    \E t \in Clients :
        \/ \E m \in Models : ChatRequest_model(t, m)
        \/ \E m \in Models : model(t, m)
        \/ \E m \in Messages : add_message(t, m)
        \/ \E v \in Vectors : messages(t, v)
        \/ call_validate(t)
        \/ call_to_json(t)

SpecRequest == InitConfig /\ [][NextRequest]_vars

\* one exchange and its classification: the transport outcome is given, the
\* client thread runs the try block of one attempt on it
StatusCodes == 100..599
Bodies == {NotJson, NoMember, IntMember(0), IntMember(30), StringMember}
Exchanges ==
    {Outcome(h, 0, NoMember) : h \in {"handle", "timeout", "connect"}}
    \cup {Outcome("response", s, b) : s \in StatusCodes, b \in Bodies}

InitClassify ==
    /\ InitRateLimiter
    /\ InitLocals
    /\ constructed = TRUE
    /\ max_retries_ = 0
    /\ \E o \in Exchanges :
          outcomes = [t \in Threads |-> IF t \in Clients THEN <<o>> ELSE <<>>]

\* http_client.post(...); handle_http_response(...): what leaves the try
\* block is kept in raised
classify(t) ==
    /\ CanStart(t)
    /\ calls[t] = 0
    /\ calls' = [calls EXCEPT ![t] = 1]
    /\ raised' = [raised EXCEPT ![t] = AttemptError(outcomes[t][1])]
    /\ UNCHANGED <<limiterVars, quietVars, aged, pc, caller, sleep_left, ret,
                   attempt, last_exception, result, outcomes, slept, admits,
                   events, callVars, admitted, undisturbed>>

NextClassify == \E t \in Clients : classify(t)

SpecClassify == InitClassify /\ [][NextClassify]_vars

\* ------------------------------- handle_http_response: the error message
\* an unparsable body at least this long is not used as the message
BodyCap == 200

\* A response body as the message extraction reads it: what json::parse makes
\* of it and of its "error" member, and its size in bytes.
\*   "unparsable"          json::parse throws
\*   "absent"              parses, j.contains("error") is false
\*   "string"              "error" is a string
\*   "object_message"      "error" is an object whose "message" is a string
\*   "message_not_string"  "error" is an object whose "message" is no string
\*   "object_no_message"   "error" is an object without "message"
\*   "other"               "error" is a number, a boolean, an array or null
ErrorBody(error, size) ==
    [kind |-> IF error = "unparsable" THEN "not_json" ELSE "no_member",
     val |-> 0, error |-> error, size |-> size]

\* std::string error_message and where its text comes from
Text(from, status_code) == [from |-> from, code |-> status_code]

\* catch (...): the body itself when it is not empty and shorter than the cap
Fallback(status_code, response_body) ==
    IF response_body.size # 0 /\ response_body.size < BodyCap
    THEN Text("body", 0)
    ELSE Text("HTTP", status_code)

\* error_message when the switch is reached; get<std::string>() throws on a
\* "message" that is no string, which catch (...) takes like a parse failure
error_message(status_code, response_body) ==
    IF response_body.error = "unparsable"
    THEN Fallback(status_code, response_body)
    ELSE IF response_body.error = "string" THEN Text("error", 0)
    ELSE IF response_body.error = "object_message"
         THEN Text("error.message", 0)
    ELSE IF response_body.error = "message_not_string"
         THEN Fallback(status_code, response_body)
    ELSE Text("HTTP", status_code)

\* an empty body does not parse; the shortest body with an "error" member
\* has more than two bytes
Sizes == {0, 1, BodyCap - 1, BodyCap, BodyCap + 1}
ErrorBodies ==
    {ErrorBody("unparsable", n) : n \in Sizes}
    \cup {ErrorBody(e, n) :
             e \in {"absent", "string", "object_message", "message_not_string",
                    "object_no_message", "other"},
             n \in Sizes \ {0, 1}}

InitMessage ==
    /\ InitRateLimiter
    /\ InitLocals
    /\ constructed = TRUE
    /\ max_retries_ = 0
    /\ \E s \in StatusCodes, b \in ErrorBodies :
          outcomes = [t \in Threads |->
                         IF t \in Clients THEN <<Outcome("response", s, b)>>
                         ELSE <<>>]

\* handle_http_response(status_code, response_body): the exception it throws
\* is kept in raised and its message in what
report(t) ==
    /\ CanStart(t)
    /\ calls[t] = 0
    /\ calls' = [calls EXCEPT ![t] = 1]
    /\ LET o == outcomes[t][1]
           e == handle_http_response(o.status, o.body)
       IN /\ raised' = [raised EXCEPT ![t] = e]
          /\ what' = [what EXCEPT ![t] =
                         IF e = NoError THEN NullOpt
                         ELSE Some(error_message(o.status, o.body))]
    /\ UNCHANGED <<limiterVars, thrown, max_retries_, param, parsed, buildVars,
                   requestVars, stream, delivered, aged, pc, caller,
                   sleep_left, ret, attempt, last_exception, result, outcomes,
                   slept, admits, events, callVars, admitted, undisturbed>>

NextMessage == \E t \in Clients : report(t)

SpecMessage == InitMessage /\ [][NextMessage]_vars

\* ------------------------------------------- the backoff, for any attempt
\* max_retries(int) accepts every int >= 0; the values up to this one are
\* drawn
MaxShift == 33

\* 1 << n in int.  For n >= 32 the shift is undefined: the processor masks
\* the count to five bits (x86) or shifts the bit out (ARM).
Shl1Outcomes(n) == IF n < 32 THEN {Shl1(n)} ELSE {Shl1(n % 32), 0}

\* x * y is at most INT_MAX, for y > 0
Fits(x, y) == x >= 0 /\ x <= MaxInt32 \div y

\* the process was ended by the overflow check of a trapping build
Trapped == [op |-> "execute_request_with_retry", val |-> 0, error |-> "abort"]

\* 100 * (1 << attempt) in int.  A product beyond INT_MAX is undefined: it
\* wraps to 32 bits, or a trapping build (-ftrapv) ends the process, written
\* as the empty optional
wait_ms(a) ==
    UNION {IF Fits(x, BaseBackoffMs) THEN {Some(x * BaseBackoffMs)}
           ELSE {Some(Mul32(x, BaseBackoffMs)), NullOpt} :
           x \in Shl1Outcomes(a)}

InitBackoff ==
    /\ InitRateLimiter
    /\ InitThreads
    /\ max_retries_ \in 0..MaxShift

\* a catch clause for ServerError or NetworkError entered with attempt = a
\* below max_retries: wait_ms is computed and handed to sleep_for
backoff(t, a) ==
    /\ CanStart(t)
    /\ calls[t] = 0
    /\ a < max_retries_
    /\ calls' = [calls EXCEPT ![t] = 1]
    /\ attempt' = [attempt EXCEPT ![t] = a]
    /\ \E ms \in wait_ms(a) :
          IF ms = NullOpt
          THEN /\ ret' = [ret EXCEPT ![t] = Trapped]
               /\ UNCHANGED slept
          ELSE /\ slept' = [slept EXCEPT ![t] = <<ms[1]>>]
               /\ UNCHANGED ret
    /\ UNCHANGED <<limiterVars, quietVars, aged, pc, caller, sleep_left,
                   last_exception, result, raised, outcomes, admits, events,
                   callVars, admitted, undisturbed>>

NextBackoff == \E t \in Clients, a \in 0..MaxShift : backoff(t, a)

SpecBackoff == InitBackoff /\ [][NextBackoff]_vars

\* ----------------------------------------------------- Client::chat_stream
\* std::string as the sequence of its characters
DataPrefix == <<"d", "a", "t", "a", ":", " ">>
DoneText == <<"[", "D", "O", "N", "E", "]">>
Newline == <<"\n">>

\* s.substr(pos, n) and s.substr(pos), for pos <= s.size()
substr(s, pos, n) == SubSeq(s, pos + 1, Min(pos + n, Len(s)))
substr_from(s, pos) == SubSeq(s, pos + 1, Len(s))

\* json::parse skips the white space around the value
RECURSIVE Trimmed(_)
Trimmed(s) ==
    IF s = <<>> THEN s
    ELSE IF Head(s) \in {" ", "\n"} THEN Trimmed(Tail(s))
    ELSE IF s[Len(s)] \in {" ", "\n"} THEN Trimmed(SubSeq(s, 1, Len(s) - 1))
    ELSE s

\* the texts over the characters used here that are one JSON value
JsonTexts == {<<"{", "}">>, <<"[", "]">>, <<"1">>}

\* json::parse(json_str) returns; otherwise it throws json::parse_error
Parses(json_str) == Trimmed(json_str) \in JsonTexts

\* StreamChunk::from_json(j): the chunk is built from any JSON value
StreamChunk_from_json(j) == NoError

\* the lines std::getline takes from the response, from position i on, with
\* data_buffer as it stands and the chunks given to the callback so far:
\* the chunks given when the loop is left, and the error that left it
RECURSIVE read_lines(_, _, _, _)
read_lines(lines, i, data_buffer, chunks) ==
    IF i > Len(lines) THEN [chunks |-> chunks, error |-> NoError]
    ELSE IF lines[i] = <<>> /\ data_buffer # <<>>
    THEN IF substr(data_buffer, 0, 6) = DataPrefix
         THEN LET json_str == substr_from(data_buffer, 6) IN
              IF json_str = DoneText
              THEN [chunks |-> chunks, error |-> NoError]
              ELSE IF /\ Parses(json_str)
                      /\ StreamChunk_from_json(Trimmed(json_str)) = NoError
              THEN read_lines(lines, i + 1, <<>>,
                              Append(chunks, Trimmed(json_str)))
              ELSE [chunks |-> chunks, error |-> JsonParseError("chat_stream")]
         ELSE read_lines(lines, i + 1, <<>>, chunks)
    ELSE read_lines(lines, i + 1, data_buffer \o lines[i] \o Newline, chunks)

\* one event of a stream: its line, and the blank line that ends it
MaxEvents == 3
DataLine(text) == DataPrefix \o text
EventLines ==
    {DataLine(j) : j \in JsonTexts}
    \cup {DataLine(DoneText), DataLine(<<"x">>), <<":", "k">>}
RECURSIVE Lines(_)
Lines(es) == IF es = <<>> THEN <<>> ELSE <<Head(es), <<>>>> \o Lines(Tail(es))
Streams ==
    {Lines(es) : es \in UNION {[1..n -> EventLines] : n \in 0..MaxEvents}}

\* a few of them: no event, one chunk, a chunk and the end mark, no JSON
SampleStreams ==
    {Lines(es) : es \in {<<>>, <<DataLine(<<"{", "}">>)>>,
                         <<DataLine(<<"{", "}">>), DataLine(DoneText)>>,
                         <<DataLine(<<"x">>)>>}}

\* the requests chat_stream and chat are given
ChatRequests ==
    {[model_ |-> m, messages_ |-> v] : m \in Models, v \in Vectors}

\* what the one attempt of chat_stream meets
StreamOutcomes ==
    {Outcome(h, 0, NoMember) : h \in {"handle", "timeout", "connect"}}
    \cup {Outcome("response", s, NoMember) : s \in {200, 503}}

\* chat_stream(request, callback) up to the test of enabled_ in
\* wait_if_needed; request.stream(true) sets a member that only to_json copies
chat_stream(t, r) ==
    /\ CanStart(t)
    /\ constructed
    /\ calls' = [calls EXCEPT ![t] = @ + 1]
    /\ request' = r
    /\ WaitEnter(t, "stream")
    /\ admits' = [admits EXCEPT ![t] = 1]
    /\ events' = [events EXCEPT ![t] = <<"admit">>]
    /\ attempt' = [attempt EXCEPT ![t] = 0]
    /\ last_exception' = [last_exception EXCEPT ![t] = NoError]
    /\ result' = [result EXCEPT ![t] = 0]
    /\ raised' = [raised EXCEPT ![t] = NoError]
    /\ outcomes' = [outcomes EXCEPT ![t] = <<>>]
    /\ slept' = [slept EXCEPT ![t] = <<>>]
    /\ stream' = [stream EXCEPT ![t] = <<>>]
    /\ delivered' = [delivered EXCEPT ![t] = <<>>]
    /\ UNCHANGED <<limiterVars, thrown, max_retries_, param, parsed, buildVars,
                   body, what, aged, sleep_left, ret, admitted, undisturbed>>

\* the exception that leaves chat_stream before or in http_client.post
StreamError(r, o) ==
    IF o.how = "handle" THEN NetworkError(0, "initialize")
    ELSE IF to_json(r) = NullOpt THEN ValidationError("validate")
    ELSE IF o.how = "timeout" THEN TimeoutError("post")
    ELSE IF o.how = "connect" THEN NetworkError(0, "post")
    ELSE NoError

\* http_client.post is reached
Posts(r, o) == o.how # "handle" /\ to_json(r) # NullOpt

\* chat_stream_call that makes a second attempt after a failed first one
chat_stream_call_again(t, o, lines) ==
    /\ pc[t] = "s_call"
    /\ (StreamError(request, o) # NoError => lines = <<>>)
    /\ outcomes' = [outcomes EXCEPT ![t] = Append(@, o)]
    /\ events' = [events EXCEPT ![t] =
                    IF Posts(request, o) THEN Append(@, "post") ELSE @]
    /\ LET e == StreamError(request, o)
           read == read_lines(lines, 1, <<>>, <<>>)
       IN  /\ stream' = [stream EXCEPT ![t] = lines]
           /\ delivered' = [delivered EXCEPT ![t] =
                               IF e = NoError THEN read.chunks ELSE <<>>]
           /\ raised' = [raised EXCEPT ![t] =
                            IF e = NoError THEN read.error ELSE e]
           /\ pc' = [pc EXCEPT ![t] =
                       IF e.kind \in {"Network", "Timeout"} /\ outcomes[t] = <<>>
                       THEN "s_call" ELSE "idle"]
    /\ UNCHANGED <<limiterVars, thrown, max_retries_, param, parsed, buildVars,
                   requestVars, what, aged, caller, sleep_left, ret, calls,
                   attempt, last_exception, result, slept, admits, callVars,
                   admitted, undisturbed>>

\* the rest of chat_stream: HttpClient http_client(config_), to_json, post
\* and the loop over the lines of the response
chat_stream_call(t, o, lines) ==
    /\ pc[t] = "s_call"
    /\ (StreamError(request, o) # NoError => lines = <<>>)
    /\ outcomes' = [outcomes EXCEPT ![t] = Append(@, o)]
    /\ events' = [events EXCEPT ![t] =
                    IF Posts(request, o) THEN Append(@, "post") ELSE @]
    /\ LET e == StreamError(request, o)
           read == read_lines(lines, 1, <<>>, <<>>)
       IN  /\ stream' = [stream EXCEPT ![t] = lines]
           /\ delivered' = [delivered EXCEPT ![t] =
                               IF e = NoError THEN read.chunks ELSE <<>>]
           /\ raised' = [raised EXCEPT ![t] =
                            IF e = NoError THEN read.error ELSE e]
    /\ pc' = [pc EXCEPT ![t] = "idle"]
    /\ UNCHANGED <<limiterVars, thrown, max_retries_, param, parsed, buildVars,
                   requestVars, what, aged, caller, sleep_left, ret, calls,
                   attempt, last_exception, result, slept, admits, callVars,
                   admitted, undisturbed>>

NextStream ==
    \/ Tick
    \/ \E t \in Clients :
        \/ \E r \in ChatRequests : chat_stream(t, r)
        \/ wait_lock(t)
        \/ wait_loop(t)
        \/ wait_wake(t)
        \/ wait_push(t)
        \/ \E o \in StreamOutcomes, lines \in SampleStreams :
              chat_stream_call(t, o, lines)

SpecStream == Init /\ [][NextStream]_vars

\* the loop of chat_stream over the lines of a response, for any response
read_response(t, lines) ==
    /\ CanStart(t)
    /\ calls[t] = 0
    /\ calls' = [calls EXCEPT ![t] = 1]
    /\ LET read == read_lines(lines, 1, <<>>, <<>>)
       IN  /\ stream' = [stream EXCEPT ![t] = lines]
           /\ delivered' = [delivered EXCEPT ![t] = read.chunks]
           /\ raised' = [raised EXCEPT ![t] = read.error]
    /\ UNCHANGED <<limiterVars, thrown, max_retries_, param, parsed, buildVars,
                   requestVars, what, aged, pc, caller, sleep_left, ret,
                   attempt, last_exception, result, outcomes, slept, admits,
                   events, callVars, admitted, undisturbed>>

NextEvents == \E t \in Clients, lines \in Streams : read_response(t, lines)

SpecEvents == InitLimiter /\ [][NextEvents]_vars

\* ------------------------------------------- Client::chat and its request
\* one attempt of chat: HttpClient http_client(config_), then the lambda of
\* chat, in which request.to_json() validates before http_client.post
Invalid == Outcome("validate", 0, NoMember)

chat_attempt(t, o) ==
    retry_attempt(t, IF o.how # "handle" /\ to_json(request) = NullOpt
                     THEN Invalid ELSE o)

ChatOutcomes ==
    {Outcome("handle", 0, NoMember), Outcome("connect", 0, NoMember),
     Outcome("response", 200, ChatPayload), Outcome("response", 503, NoMember)}

\* the program builds a ChatRequest, then calls chat with it
NextChatRequest ==
    \/ Tick
    \/ \E t \in Clients :
        \/ \E m \in Models : calls[t] = 0 /\ ChatRequest_model(t, m)
        \/ \E v \in Vectors : calls[t] = 0 /\ messages(t, v)
        \/ chat(t)
        \/ retry_loop(t)
        \/ wait_lock(t)
        \/ wait_loop(t)
        \/ wait_wake(t)
        \/ wait_push(t)
        \/ \E o \in ChatOutcomes : chat_attempt(t, o)
        \/ retry_backoff(t)
        \/ chat_parse(t)

SpecChatRequest == Init /\ [][NextChatRequest]_vars

\* Spec under a scheduler that lets the clock advance and lets the client
\* thread take a step whenever it can; every transport call ends
ClientStep(t) ==
    \/ retry_loop(t)
    \/ wait_lock(t)
    \/ wait_loop(t)
    \/ wait_wake(t)
    \/ wait_push(t)
    \/ \E o \in Outcomes : retry_attempt(t, o)
    \/ retry_backoff(t)

FairSpec ==
    /\ Init
    /\ [][Next]_vars
    /\ WF_vars(Tick)
    /\ \A t \in Clients : WF_vars(ClientStep(t))

\* threads that only call wait_if_needed, each finitely often, under a
\* scheduler that lets the clock advance and lets every thread that can take
\* a step take one eventually
NextAdmit ==
    \/ Tick
    \/ \E t \in Threads :
        \/ wait_if_needed(t)
        \/ wait_lock(t)
        \/ wait_loop(t)
        \/ wait_wake(t)
        \/ wait_push(t)

WaitStep(t) == wait_lock(t) \/ wait_loop(t) \/ wait_wake(t) \/ wait_push(t)

FairAdmit ==
    /\ InitLimiter
    /\ [][NextAdmit]_vars
    /\ WF_vars(Tick)
    /\ \A t \in Threads : WF_vars(WaitStep(t))

\* ========================================================= properties
InWait(t) == pc[t] \in {"w_lock", "w_loop", "w_sleep", "w_push"}
WaitReturned(t) == pc[t] = "idle" /\ ret[t].op = "wait_if_needed"

\* C1: whenever wait_if_needed is about to append a time point on a limiter
\* that has stayed enabled with its capacity unchanged and without a reset,
\* the window holds fewer time points than the capacity.
C1_AppendBelowCapacity ==
    \A t \in Threads :
        (undisturbed /\ pc[t] = "w_push")
            => Len(request_times_) < max_requests_per_minute_

\* C2: with the limiter enabled throughout, the capacity unchanged and no
\* reset, at every instant t at most capacity time points have been recorded
\* in the trailing minute (t - 1min, t].
C2_AtMostCapacityPerMinute ==
    undisturbed => Len(admitted) <= max_requests_per_minute_

\* C10: every wait_if_needed call that has entered the locked part returns,
\* without an error; a returned call has recorded exactly one time point when
\* it read enabled_ as true, and none otherwise.
C10_AdmitReturns ==
    /\ \A t \in Threads : InWait(t) ~> WaitReturned(t)
    /\ [](\A t \in Threads :
            WaitReturned(t) =>
                /\ ret[t].error = "none"
                /\ pushed[t] = IF sawEnabled[t] THEN 1 ELSE 0)

\* a call that found the window full and slept has returned
C10_Witness ==
    \E t \in Threads :
        WaitReturned(t) /\ suspended[t] /\ napped[t] > 0 /\ pushed[t] = 1

\* ------------------------------------------- execute_request_with_retry
\* the run of thread t is over
Finished(t) == pc[t] = "idle" /\ calls[t] > 0

\* the classes of outcome as the specification names them
Is2xx(o) == o.how = "response" /\ o.status \in 200..299
IsTerminalStatus(o) == o.how = "response" /\ o.status \in {400, 401, 403, 429}
IsTimeout(o) == o.how = "timeout"
IsServerOrNetwork(o) == ~Is2xx(o) /\ ~IsTerminalStatus(o) /\ ~IsTimeout(o)

\* the error class and status code the specification gives an outcome
ExpectedKind(o) ==
    IF IsTimeout(o) THEN "Timeout"
    ELSE IF o.how # "response" THEN "Network"
    ELSE IF o.status = 400 THEN "Validation"
    ELSE IF o.status \in {401, 403} THEN "Authentication"
    ELSE IF o.status = 429 THEN "RateLimit"
    ELSE IF o.status \in {500, 502, 503, 504} THEN "Server"
    ELSE "Network"
ExpectedStatus(o) ==
    IF ExpectedKind(o) \in {"Server", "Network"} THEN o.status ELSE 0

AllAttempts(t, P(_)) == \A i \in 1..Len(outcomes[t]) : P(outcomes[t][i])

\* C3: no run makes more than max_retries + 1 attempts, and a run whose
\* attempts all end in a Server or Network failure makes exactly
\* max_retries + 1 of them and then raises.
C3_AttemptsBounded ==
    \A t \in Clients :
        /\ Len(outcomes[t]) <= max_retries_ + 1
        /\ (Finished(t) /\ AllAttempts(t, IsServerOrNetwork))
            => /\ Len(outcomes[t]) = max_retries_ + 1
               /\ raised[t] # NoError
               /\ result[t] = 0

C3_Witness ==
    \E t \in Clients :
        /\ Finished(t) /\ AllAttempts(t, IsServerOrNetwork)
        /\ max_retries_ = 2 /\ Len(outcomes[t]) = 3

\* C4: a transport timeout is retried like a Server or Network failure: it
\* is followed by the backoff sleep while attempt < max_retries, and it is
\* raised to the caller only from the attempt with index max_retries.
C4_TimeoutRetried ==
    \A t \in Clients :
        /\ \A i \in 1..Len(outcomes[t]) :
              (IsTimeout(outcomes[t][i]) /\ i - 1 < max_retries_)
                  => Len(slept[t]) >= i
        /\ (Finished(t) /\ raised[t].kind = "Timeout")
              => Len(outcomes[t]) = max_retries_ + 1

\* C5: an attempt answered 400, 401, 403 or 429 is the last attempt of the
\* run, whichever attempt it is: the run is over with that error raised, no
\* backoff sleep was started for it and no further admission was asked for.
C5_TerminalAtOnce ==
    \A t \in Clients : \A i \in 1..Len(outcomes[t]) :
        IsTerminalStatus(outcomes[t][i])
            => /\ i = Len(outcomes[t])
               /\ Finished(t)
               /\ raised[t].kind = ExpectedKind(outcomes[t][i])
               /\ result[t] = 0
               /\ Len(slept[t]) = i - 1
               /\ admits[t] = i

C5_Witness ==
    \E t \in Clients :
        /\ Finished(t) /\ Len(outcomes[t]) = 2
        /\ IsTerminalStatus(outcomes[t][2])
        /\ raised[t].kind = "Authentication"

\* C6: when attempt k is the first answered 2xx and the attempts before it
\* ended in Server or Network failures, the run returns the payload of
\* attempt k after exactly k attempts, k - 1 sleeps and k admissions.
C6_FirstSuccessReturns ==
    \A t \in Clients : \A k \in 1..Len(outcomes[t]) :
        (/\ Is2xx(outcomes[t][k])
         /\ \A j \in 1..(k - 1) : IsServerOrNetwork(outcomes[t][j]))
            => /\ k = Len(outcomes[t])
               /\ Finished(t)
               /\ result[t] = k
               /\ raised[t] = NoError
               /\ Len(slept[t]) = k - 1
               /\ admits[t] = k

C6_Witness ==
    \E t \in Clients :
        /\ Finished(t) /\ result[t] = 3 /\ Len(outcomes[t]) = 3
        /\ outcomes[t][1].status = 503 /\ outcomes[t][2].status = 503

\* C7: the n-th backoff sleep of a run is 100 ms * 2^(n-1), and a sleep is
\* started after exactly those Server or Network failures whose attempt index
\* is below max_retries (none after the attempt with index max_retries).
RECURSIVE TwoTo(_)
TwoTo(n) == IF n = 0 THEN 1 ELSE 2 * TwoTo(n - 1)

C7_ExponentialBackoff ==
    \A t \in Clients :
        /\ \A n \in 1..Len(slept[t]) : slept[t][n] = 100 * TwoTo(n - 1)
        /\ Len(slept[t]) =
              Cardinality({i \in 1..Len(outcomes[t]) :
                  IsServerOrNetwork(outcomes[t][i]) /\ i - 1 < max_retries_})

C7_Witness ==
    \E t \in Clients :
        /\ Finished(t) /\ slept[t] = <<100, 200>>
        /\ Len(outcomes[t]) = 3 /\ IsServerOrNetwork(outcomes[t][3])

\* C8: when all max_retries + 1 attempts fail with retryable kinds, the
\* error raised is the failure of the last attempt: its class and its status.
IsRetryableFailure(o) == IsServerOrNetwork(o) \/ IsTimeout(o)

C8_LastErrorRaised ==
    \A t \in Clients :
        (/\ Finished(t)
         /\ Len(outcomes[t]) = max_retries_ + 1
         /\ AllAttempts(t, IsRetryableFailure))
            => LET last == outcomes[t][Len(outcomes[t])] IN
               /\ raised[t].kind = ExpectedKind(last)
               /\ raised[t].status = ExpectedStatus(last)

C8_Witness ==
    \E t \in Clients :
        /\ Finished(t) /\ Len(outcomes[t]) = 3 /\ max_retries_ = 2
        /\ outcomes[t][1].status = 503 /\ outcomes[t][3].status = 404
        /\ raised[t].kind = "Network" /\ raised[t].status = 404

\* C9: a run in progress has delivered nothing; a run that is over has
\* either returned a payload or raised one error of the library's classes,
\* never both and never neither; and every run that starts is over eventually.
C9_OneOutcome ==
    /\ [](\A t \in Clients :
            /\ (pc[t] # "idle") => (result[t] = 0 /\ raised[t] = NoError)
            /\ Finished(t) => ((result[t] # 0) # (raised[t] # NoError))
            /\ raised[t] # NoError => raised[t].kind \in ErrorKinds)
    /\ \A t \in Clients : (pc[t] # "idle") ~> Finished(t)

C9_Witness ==
    \E t \in Clients :
        /\ Finished(t) /\ raised[t].kind = "Timeout" /\ result[t] = 0
        /\ Len(outcomes[t]) = 2

\* -------------------------------------------- RateLimiter under contention
\* thread t is inside the sleep_for of wait_if_needed, which has not returned
Sleeping(t) == pc[t] = "w_sleep" /\ sleep_left[t] > 0

\* C11: a thread suspended in the sleep_for of wait_if_needed does not hold
\* the mutex, and while no thread but sleepers is between a lock and its
\* unlock, every other thread can take the lock in wait_if_needed or
\* can_make_request and can run get_current_request_count, reset, set_limit
\* and set_enabled, whether or not the sleeper's sleep_for has returned.
C11_SleeperHoldsNoLock ==
    \A t \in Threads :
        pc[t] = "w_sleep" =>
            /\ mutex_ # t
            /\ \A u \in Threads \ {t} :
                 (\A v \in Threads : pc[v] # "w_sleep" => mutex_ # v) =>
                    /\ pc[u] = "w_lock" => ENABLED wait_lock(u)
                    /\ pc[u] = "c_lock" => ENABLED can_make_request_locked(u)
                    /\ CanStart(u) =>
                          /\ ENABLED get_current_request_count(u)
                          /\ ENABLED reset(u)
                          /\ ENABLED set_limit(u, 1)
                          /\ ENABLED set_enabled(u, FALSE)

\* the requester sleeps, its sleep_for has not returned, and the controller
\* has run reset meanwhile: the window the sleeper found full is empty
C11_Witness ==
    /\ Sleeping(Requester)
    /\ request_times_ = <<>>
    /\ pc[Controller] = "idle" /\ ret[Controller].op = "reset"

\* thread t takes a step of one of its operations
Acts(t) == pc'[t] # pc[t] \/ calls'[t] # calls[t]

\* the positions between a lock of mutex_ and the matching unlock
Locked == {"w_loop", "w_push", "e_write"}

\* C12: a thread is between a lock and its unlock exactly when it owns the
\* mutex, so at most one thread is; and every step of a thread that changes
\* request_times_ or max_requests_per_minute_, or reads them (the wait loop's
\* test, can_make_request, get_current_request_count), is taken while no
\* other thread owns the mutex, the thread owning it or taking and releasing
\* it within the step.
C12_WindowUnderMutex ==
    /\ [](\A t \in Threads : pc[t] \in Locked <=> mutex_ = t)
    /\ [][\A t \in Threads :
            (\/ /\ Acts(t)
                /\ <<request_times_, max_requests_per_minute_>>' #
                       <<request_times_, max_requests_per_minute_>>
             \/ wait_loop(t)
             \/ can_make_request_locked(t)
             \/ get_current_request_count(t))
                => (mutex_ \in {0, t} /\ mutex_' \in {0, t})]_vars

\* the requester owns the mutex and is about to append to a window that holds
\* a time point while the controller waits for the lock in wait_if_needed
C12_Witness ==
    /\ mutex_ = Requester /\ pc[Requester] = "w_push"
    /\ pc[Controller] = "w_lock"
    /\ Len(request_times_) > 0

\* C13: every read of enabled_ by wait_if_needed and can_make_request is
\* made by a thread that owns the mutex, so no thread reads enabled_ while
\* another thread is inside set_enabled between its lock and its store.
C13_FlagUnderMutex ==
    [][\A t \in Threads :
          (wait_if_needed(t) \/ can_make_request(t))
              => \A u \in Threads \ {t} : pc[u] # "e_write"]_vars

\* ------------------------------------------------ RateLimiter: the probes
\* what get_current_request_count returns on the window w
CountOf(w) == Len(cleanup_old_requests(w))

\* C14: no step of can_make_request records a time point: the value
\* get_current_request_count returns at that instant is the same before and
\* after the step, whatever the window holds and however often it is called.
C14_ProbeRecordsNothing ==
    [][\A t \in Threads :
          (can_make_request(t) \/ can_make_request_locked(t))
              => /\ CountOf(request_times_') = CountOf(request_times_)
                 /\ admitted' = admitted]_vars

\* the requester has recorded a time point and then probed a limiter of
\* capacity 2: the probe returned true and the window still holds one
C14_Witness ==
    /\ calls[Controller] = 0 /\ calls[Requester] = 2
    /\ pc[Requester] = "idle" /\ ret[Requester] = Returned("can_make_request", 1)
    /\ max_requests_per_minute_ = 2 /\ Len(request_times_) = 1

\* only thread t has called the limiter, which was constructed enabled and is
\* as constructed, and every time point recorded so far is younger than a
\* minute; admitted then lists every time point recorded
Fresh(t) == undisturbed /\ ~aged /\ \A u \in Threads \ {t} : calls[u] = 0

\* C15: on a limiter constructed enabled and used by one thread, while every
\* recorded time point is younger than a minute, can_make_request has
\* returned true exactly when fewer time points than the capacity are
\* recorded, and a wait_if_needed call that recorded one of the first
\* capacity time points has returned without calling sleep_for.
C15_FirstAdmitsPass ==
    \A t \in Threads :
        Fresh(t) =>
            /\ (pc[t] = "idle" /\ ret[t].op = "can_make_request")
                   => (ret[t].val = 1 <=>
                          Len(admitted) < max_requests_per_minute_)
            /\ (WaitReturned(t) /\ Len(admitted) <= max_requests_per_minute_)
                   => (~suspended[t] /\ napped[t] = 0 /\ pushed[t] = 1)

\* capacity 1: the requester has recorded one time point and then probed;
\* the probe returned false
C15_Witness ==
    /\ Fresh(Requester) /\ max_requests_per_minute_ = 1
    /\ Len(admitted) = 1
    /\ pc[Requester] = "idle" /\ ret[Requester] = Returned("can_make_request", 0)

\* ------------------------------------------- RateLimiter: the full window
\* C16: a wait_if_needed call entered on an enabled limiter whose window
\* held at least capacity time points, all younger than a minute, has not
\* returned before the oldest of them is a minute old (the limiter staying
\* enabled, its capacity unchanged and without a reset meanwhile).
C16_NotBeforeOldestLeaves ==
    \A t \in Threads :
        (undisturbed /\ WaitReturned(t)) => due[t] = 0

\* the requester, alone on the limiter, entered on a full window, slept and
\* returned once the oldest time point was a minute old
C16_Witness ==
    /\ undisturbed /\ calls[Controller] = 0
    /\ WaitReturned(Requester) /\ pushed[Requester] = 1
    /\ suspended[Requester] /\ napped[Requester] > 0
    /\ due[Requester] = 0

\* ------------------------------------ RateLimiter: reset, disabling, set_limit
\* what can_make_request returns when it runs in the current state
Probe ==
    ~enabled_ \/ CountOf(request_times_) < max_requests_per_minute_

\* C17: in the state reset leaves, get_current_request_count returns 0 and,
\* the capacity being at least 1, can_make_request returns true, whatever
\* the window held; and the window stays empty while no other thread calls.
C17_ResetEmpties ==
    /\ [][\A t \in Threads :
            reset(t) => /\ CountOf(request_times_') = 0
                        /\ max_requests_per_minute_' >= 1 => Probe']_vars
    /\ [](\A t \in Threads :
            (/\ pc[t] = "idle" /\ ret[t].op = "reset"
             /\ \A u \in Threads \ {t} : calls[u] = 0)
                => request_times_ = <<>>)

\* the controller has reset an enabled limiter whose window was full of time
\* points younger than a minute
C17_Witness ==
    /\ pc[Controller] = "idle" /\ ret[Controller].op = "reset"
    /\ enabled_ /\ request_times_ = <<>>
    /\ Len(admitted) >= max_requests_per_minute_

\* C18: a wait_if_needed call that starts while the limiter is disabled
\* returns in that step, without sleep_for and without recording a time
\* point, and a can_make_request call that starts then returns true in that
\* step, whatever the window holds.
C18_DisabledBypass ==
    [][\A t \in Threads :
          ~enabled_ =>
              /\ wait_if_needed(t) =>
                    /\ pc'[t] = "idle"
                    /\ ret'[t] = Returned("wait_if_needed", 0)
                    /\ ~suspended'[t] /\ pushed'[t] = 0
                    /\ request_times_' = request_times_
              /\ can_make_request(t) =>
                    /\ pc'[t] = "idle"
                    /\ ret'[t] = Returned("can_make_request", 1)
                    /\ request_times_' = request_times_]_vars

\* the requester filled the window, the controller disabled the limiter, and
\* the requester's probe returned true on the full window
C18_Witness ==
    /\ ~enabled_ /\ ~aged
    /\ calls[Controller] = 1 /\ ret[Controller].op = "set_enabled"
    /\ Len(admitted) >= max_requests_per_minute_
    /\ Len(request_times_) >= max_requests_per_minute_
    /\ pc[Requester] = "idle" /\ ret[Requester] = Returned("can_make_request", 1)

\* C19: set_limit(c) with c <= 0 throws ConfigurationError and leaves the
\* capacity and the window as they are; with c > 0 it returns with the
\* capacity set to c and the window as it is; and the constructor has thrown
\* ConfigurationError exactly when it was given a capacity <= 0, so that a
\* limiter that exists has a capacity of at least 1.
C19_CapacityChecked ==
    /\ [][\A t \in Threads, c \in -1..MaxCap :
            set_limit(t, c) =>
                /\ request_times_' = request_times_
                /\ IF c <= 0
                   THEN /\ ret'[t] = Threw("set_limit", ConfigurationError("set_limit"))
                        /\ max_requests_per_minute_' = max_requests_per_minute_
                   ELSE /\ ret'[t] = Returned("set_limit", 0)
                        /\ max_requests_per_minute_' = c]_vars
    /\ [](/\ thrown.kind \in {"none", "Configuration"}
          /\ thrown.kind = "Configuration" <=> max_requests_per_minute_ <= 0)

\* the controller's set_limit has thrown on a limiter whose window holds a
\* time point
C19_Witness ==
    /\ pc[Controller] = "idle"
    /\ ret[Controller] = Threw("set_limit", ConfigurationError("set_limit"))
    /\ Len(request_times_) > 0
    /\ max_requests_per_minute_ >= 1

\* ------------------------------------------------ the classification
\* thread t has classified the exchange it was given
Classified(t) == calls[t] = 1 /\ Len(outcomes[t]) = 1

\* the classes and status codes the specification gives a response
ClassOf(o, e) ==
    IF o.status \in 200..299 THEN e = NoError
    ELSE IF o.status = 400 THEN e.kind = "Validation"
    ELSE IF o.status \in {401, 403} THEN e.kind = "Authentication"
    ELSE IF o.status = 429 THEN e.kind = "RateLimit"
    ELSE IF o.status \in {500, 502, 503, 504}
         THEN e.kind = "Server" /\ e.status = o.status
    ELSE e.kind = "Network" /\ e.status = o.status

Times(s, e) == Cardinality({i \in DOMAIN s : s[i] = e})

\* C21: on an enabled limiter, a run that has made k attempts has recorded
\* exactly k time points in the window, and a run about to make its
\* (k+1)-th attempt has recorded k + 1: one per attempt, retries included.
C21_StampPerAttempt ==
    \A t \in Clients :
        enabled_ =>
            /\ Finished(t) => Times(events[t], "stamp") = Len(outcomes[t])
            /\ pc[t] = "r_call"
                  => Times(events[t], "stamp") = Len(outcomes[t]) + 1

\* a run on an enabled limiter ended after its third attempt with three
\* recorded time points
C21_Witness ==
    \E t \in Clients :
        /\ enabled_ /\ Finished(t)
        /\ Len(outcomes[t]) = 3
        /\ Times(events[t], "stamp") = 3
\* the reply of the last attempt of the run
LastReply(t) == outcomes[t][Len(outcomes[t])]
\* a 2xx reply that is no chat completion
NoCompletion(o) == Is2xx(o) /\ o.body # ChatPayload
\* the call of chat is over
ChatOver(t) == Finished(t) /\ ~Unparsed(t)

\* C22: a call of chat whose attempt returned a 2xx reply that cannot be
\* parsed ends with JsonParseError, and that attempt is its last: no further
\* wait_if_needed call and no backoff sleep follows it.
C22_UnparsedRaisesAtOnce ==
    \A t \in Clients :
        (ChatOver(t) /\ outcomes[t] # <<>> /\ NoCompletion(LastReply(t)))
            => /\ ret[t] = Threw("chat", JsonParseError("chat"))
               /\ admits[t] = Len(outcomes[t])
               /\ Len(slept[t]) = Len(outcomes[t]) - 1

\* ------------------------------------------------------- configuration
\* a configuration the specification calls valid
ValidConfig(c) ==
    /\ c.api_key_ # "" /\ c.base_url_ # ""
    /\ c.timeout_ > 0 /\ c.max_retries_ >= 0
    /\ c.max_requests_per_minute_ > 0

\* the call asks for an invalid configuration: a constructor or setter with
\* an invalid argument, or a Client from the invalid Config c
AsksInvalid(call, c) ==
    \/ call.op \in {"Config", "api_key", "base_url"} /\ call.text = ""
    \/ call.op = "timeout" /\ call.number <= 0
    \/ call.op = "max_retries" /\ call.number < 0
    \/ call.op = "max_requests_per_minute" /\ call.number <= 0
    \/ call.op = "Client" /\ ~ValidConfig(c[1])

\* thread t has called wait_if_needed or the transport, or is about to
Started(t) ==
    \/ calls[t] > 0 \/ pc[t] # "idle"
    \/ events[t] # <<>> \/ outcomes[t] # <<>> \/ admits[t] > 0

Incomplete(r) == r.model_ = "" \/ Len(r.messages_) = 0

\* C24: validate throws ValidationError exactly when the model is empty or
\* there is no message, and returns otherwise; to_json throws in the same
\* cases, returning nothing, and otherwise returns the object with the model
\* and the messages.
C24_ValidateExactly ==
    \A t \in Clients :
        /\ ret[t].op = "validate"
              => ret[t] = IF Incomplete(request)
                          THEN Threw("validate", ValidationError("validate"))
                          ELSE Returned("validate", 0)
        /\ ret[t].op = "to_json"
              => IF Incomplete(request)
                 THEN /\ ret[t] = Threw("to_json", ValidationError("validate"))
                      /\ body = NullOpt
                 ELSE /\ ret[t] = Returned("to_json", 0)
                      /\ body # NullOpt
                      /\ body[1].model = request.model_
                      /\ Len(body[1].messages) = Len(request.messages_)

\* validate returned on a request with a model and two messages
C24_Witness ==
    \E t \in Clients :
        /\ ret[t] = Returned("validate", 0)
        /\ request.model_ = "sonar" /\ Len(request.messages_) = 2
\* ------------------------------------------------------- the cleanup pass
\* the step of thread t runs cleanup_old_requests: in wait_if_needed after
\* the lock and after each sleep, in can_make_request on an enabled
\* limiter, and in get_current_request_count
CleanupPass(t) ==
    \/ pc[t] \in {"w_lock", "w_sleep"} /\ pc'[t] = "w_loop"
    \/ pc[t] = "c_lock" /\ pc'[t] = "idle"
    \/ calls'[t] = calls[t] + 1 /\ ret'[t].op = "get_current_request_count"

\* the time points of window w that are at most a minute old
Recent(w) == {i \in DOMAIN w : w[i] <= Minute}

\* C25: a cleanup pass leaves no time point that is more than a minute old
\* at the time of the pass, and get_current_request_count returns the number
\* of time points that are at most a minute old.
C25_CleanupLeavesRecent ==
    [][\A t \in Threads :
        CleanupPass(t)
            => /\ Recent(request_times_') = DOMAIN request_times_'
               /\ ret'[t].op = "get_current_request_count"
                     => ret'[t].val = Cardinality(Recent(request_times_))]_vars

\* on a limiter never reset, get_current_request_count returned 1 after both
\* threads had recorded a time point: one of the two was dropped as too old
C25_Witness ==
    /\ undisturbed
    /\ pushed[Requester] = 1 /\ pushed[Controller] = 1
    /\ ret[Controller].op = "wait_if_needed"
    /\ ret[Requester] = Returned("get_current_request_count", 1)
\* ------------------------------------------------------ order of events
\* what may come directly before event e of a run (nothing before the
\* first call of wait_if_needed)
Before(e) ==
    IF e = "admit" THEN {"woke"}
    ELSE IF e = "stamp" THEN {"admit"}
    ELSE IF e = "admitted" THEN {"admit", "stamp"}
    ELSE IF e = "attempt" THEN {"admitted"}
    ELSE IF e = "sleep" THEN {"attempt"}
    ELSE {"sleep"}

\* the events of sequence s up to the i-th that are e
UpTo(s, i, e) == Cardinality({j \in 1..i : s[j] = e})

\* C26: a run begins with a call of wait_if_needed; the operation is invoked
\* only directly after a call of wait_if_needed has returned; a backoff sleep
\* begins only directly after an attempt, which failed, and after it ends
\* comes the next call of wait_if_needed.
C26_EventOrder ==
    \A t \in Clients : \A i \in DOMAIN events[t] :
        LET s == events[t] IN
        /\ i = 1 => s[i] = "admit"
        /\ i > 1 => s[i - 1] \in Before(s[i])
        /\ s[i] = "sleep"
              => AttemptError(outcomes[t][UpTo(s, i, "attempt")]) # NoError
        /\ (s[i] = "woke" /\ i < Len(s)) => s[i + 1] = "admit"

\* a run made a failed attempt, slept, was admitted again and made a second
\* attempt
C26_Witness ==
    \E t \in Clients :
        /\ Finished(t)
        /\ events[t] = <<"admit", "stamp", "admitted", "attempt", "sleep",
                         "woke", "admit", "stamp", "admitted", "attempt">>
\* ------------------------------------------------- transport failures
\* the transport failed without a reply: no handle, or no connection
IsTransportFailure(o) == o.how \in {"handle", "connect"}

\* C27: when attempt k of a run (attempt index k - 1 < max_retries) ends in
\* a transport failure, the run does not end with that attempt: the failure
\* is kept as the last error, a Network error without status code, and the
\* k-th backoff sleep of 100 ms * 2^(k-1) follows, as after a Server error.
C27_TransportFailureRetried ==
    \A t \in Clients : \A k \in DOMAIN outcomes[t] :
        (IsTransportFailure(outcomes[t][k]) /\ k - 1 < max_retries_)
            => /\ Len(slept[t]) >= k
               /\ slept[t][k] = BaseBackoffMs * TwoTo(k - 1)
               /\ Len(outcomes[t]) = k
                     => /\ ~Finished(t)
                        /\ raised[t] = NoError
                        /\ last_exception[t].kind = "Network"
                        /\ last_exception[t].status = 0

\* a run whose first attempt got no handle and whose second got no
\* connection returned the payload of its third
C27_Witness ==
    \E t \in Clients :
        /\ Finished(t) /\ result[t] = 3
        /\ outcomes[t][1].how = "handle" /\ outcomes[t][2].how = "connect"
        /\ slept[t] = <<100, 200>>
\* ------------------------------------------------ the error after the loop
\* the run of thread t left the while loop by its test
LoopExited(t) == Finished(t) /\ attempt[t] > max_retries_

\* C28: the error thrown by the last statement of
\* execute_request_with_retry is never raised: every run that is over has
\* made at least one attempt, and a run that left the loop by its test
\* raises the last error it recorded.
C28_GenericNeverRaised ==
    \A t \in Clients :
        /\ raised[t] # NetworkError(0, "exhausted")
        /\ Finished(t) => Len(outcomes[t]) >= 1
        /\ LoopExited(t) => /\ last_exception[t] # NoError
                            /\ raised[t] = last_exception[t]

\* with max_retries set to 0 through the Config, a run left the loop after
\* one failed attempt and raised its error
C28_Witness ==
    \E t \in Clients :
        /\ config # NullOpt /\ config[1].max_retries_ = 0
        /\ LoopExited(t) /\ Len(outcomes[t]) = 1
        /\ raised[t] = NetworkError(0, "post")
\* ------------------------------------------------- concurrent invocations
\* the error of the latest attempt of the run of thread t
OwnLastError(t) ==
    IF outcomes[t] = <<>> THEN NoError ELSE AttemptError(LastReply(t))

\* C29: with every thread running execute_request_with_retry on the one
\* Client, each run makes at most max_retries + 1 attempts, counts its own
\* attempts, keeps the error of its own latest failed attempt, goes on only
\* after a retryable failure of its own, and ends with the payload or the
\* error of its own last attempt, having used up its own attempts when that
\* error is a retryable one.
C29_RunsIndependent ==
    \A t \in Threads :
        /\ Len(outcomes[t]) <= max_retries_ + 1
        /\ pc[t] = "r_call" => attempt[t] = Len(outcomes[t])
        /\ pc[t] # "idle" => last_exception[t] = OwnLastError(t)
        /\ \A k \in 1..(Len(outcomes[t]) - 1) :
              /\ AttemptError(outcomes[t][k]) # NoError
              /\ Handler(AttemptError(outcomes[t][k])) = "retry"
        /\ Finished(t)
              => /\ outcomes[t] # <<>>
                 /\ raised[t] = AttemptError(LastReply(t))
                 /\ result[t] = IF Is2xx(LastReply(t)) THEN Len(outcomes[t])
                                 ELSE 0
                 /\ (raised[t] # NoError /\ Handler(raised[t]) = "retry")
                       => Len(outcomes[t]) = max_retries_ + 1

\* one thread returned the payload of its second attempt and the other used
\* up its attempts, more than one, on failures
C29_Witness ==
    /\ max_retries_ >= 1
    /\ Finished(1) /\ result[1] = 2
    /\ Finished(2) /\ raised[2].kind = "Network"
    /\ Len(outcomes[2]) = max_retries_ + 1
\* ------------------------------------------------------ a single caller
\* C30: a call of wait_if_needed by the only thread using an enabled
\* limiter asks to sleep for at most a minute, all its sleeps taken
\* together, also when set_limit has put the capacity below the number of
\* time points in the window; when it has returned it has recorded one time
\* point.
C30_SleepsAtMostAMinute ==
    /\ (InWait(Requester) \/ WaitReturned(Requester))
          => napped[Requester] <= Minute
    /\ WaitReturned(Requester) => pushed[Requester] = 1

\* after set_limit lowered the capacity to 1 the call found two time points
\* in the window and is in a sleep it asked for
C30_Witness ==
    /\ ~undisturbed /\ max_requests_per_minute_ = 1
    /\ calls[Requester] = 2 /\ pc[Requester] = "w_sleep"
    /\ Len(request_times_) = 2
    /\ suspended[Requester] /\ napped[Requester] >= 2


\* ---------------------------------------------------------------- C31
\* the reply that handle_http_response was given has been turned into an
\* exception
Reported(t) == calls[t] = 1 /\ raised[t] # NoError /\ what[t] # NullOpt

\* C31: for a non-2xx response the message is the body's "error" string or
\* its error.message when there is one; for a body that does not parse or
\* parses without an "error" member it is the body itself when that is not
\* empty and below the cap, and the "HTTP <code>" text when the body is empty
\* or too large.
C31_MessageFromBody ==
    \A t \in Clients :
        Reported(t) =>
            LET o == outcomes[t][1]
                b == o.body
            IN /\ b.error = "string" => what[t] = Some(Text("error", 0))
               /\ b.error = "object_message"
                      => what[t] = Some(Text("error.message", 0))
               /\ b.error \in {"unparsable", "absent"}
                      => what[t] = Some(IF b.size # 0 /\ b.size < BodyCap
                                        THEN Text("body", 0)
                                        ELSE Text("HTTP", o.status))


\* ---------------------------------------------------------------- C32
\* thread t calls wait_if_needed, reads enabled_ as false and returns
DisabledAdmit(t) ==
    /\ calls'[t] = calls[t] + 1
    /\ ~sawEnabled'[t]
    /\ ret'[t] = Returned("wait_if_needed", 0)

\* C32: a wait_if_needed call on a disabled limiter leaves the window of
\* time points as it is, and every time point that is recorded is recorded by
\* a call that found the limiter enabled, so calls made while it was disabled
\* are not counted once it is enabled again.
C32_DisabledRecordsNothing ==
    [][\A t \in Threads :
          /\ DisabledAdmit(t) => /\ request_times_' = request_times_
                                 /\ admitted' = admitted
                                 /\ pushed'[t] = 0
          /\ pushed'[t] = pushed[t] + 1 => sawEnabled[t]]_vars

\* the requester went through a disabled limiter, which has since been
\* enabled and counts nothing
C32_Witness ==
    /\ enabled_
    /\ ret[Controller] = Returned("set_enabled", 0)
    /\ calls[Requester] >= 1
    /\ pc[Requester] = "idle"
    /\ ~sawEnabled[Requester]
    /\ ret[Requester] = Returned("wait_if_needed", 0)
    /\ request_times_ = <<>>


\* ---------------------------------------------------------------- C33
\* thread t is at the test of the while loop of wait_if_needed, holding the
\* lock, and the test sends it to request_times_.front()
ReadsFront(t) ==
    /\ pc[t] = "w_loop"
    /\ mutex_ = t
    /\ Len(request_times_) >= max_requests_per_minute_

\* C33: a limiter whose constructor returned has a capacity of at least 1 in
\* every state, so the window is not empty whenever the wait loop reads its
\* front, also after reset or set_limit ran while the caller slept.
C33_FrontOfNonEmpty ==
    /\ thrown = NoError => max_requests_per_minute_ >= 1
    /\ \A t \in Threads : ReadsFront(t) => request_times_ # <<>>

\* the requester has slept, the controller has changed the limit meanwhile,
\* and the requester reads the front again
C33_Witness ==
    /\ ReadsFront(Requester)
    /\ suspended[Requester]
    /\ napped[Requester] >= 1
    /\ ret[Controller] = Returned("set_limit", 0)
    /\ ~undisturbed


\* ---------------------------------------------------------------- C34
\* ms is the number 100 * 2^a, which no int holds for a > 24
Exact(ms, a) ==
    /\ a <= 30
    /\ ms > 0
    /\ ms % BaseBackoffMs = 0
    /\ ms \div BaseBackoffMs = Pow2(a)

\* C34: for every max_retries that Config accepts and every attempt index
\* below it, the backoff 100 * (1 << attempt) computed in 32-bit int is the
\* number 100 * 2^attempt: it does not overflow and is positive.
C34_BackoffExact ==
    \A t \in Clients :
        calls[t] = 1 =>
            /\ ret[t] # Trapped
            /\ slept[t] # <<>>
            /\ Exact(slept[t][1], attempt[t])


\* ---------------------------------------------------------------- C35
\* the last chat_stream call of thread t has returned or thrown
StreamOver(t) == caller[t] = "stream" /\ pc[t] = "idle" /\ outcomes[t] # <<>>

\* a chat_stream call of thread t has started and made no second
\* wait_if_needed call, no second attempt and no backoff sleep
SingleAttempt(t) ==
    /\ admits[t] = 1
    /\ pushed[t] <= 1
    /\ Len(outcomes[t]) <= 1
    /\ slept[t] = <<>>
    /\ sleep_left[t] > 0 => pc[t] = "w_sleep"

\* C35 as stated: chat_stream makes exactly one wait_if_needed call and
\* exactly one transport call per invocation whatever the outcome, never
\* retries or sleeps for backoff, and a transport failure propagates from
\* that one attempt.
C35_OneAdmitOnePost ==
    \A t \in Clients :
        /\ caller[t] = "stream" => SingleAttempt(t)
        /\ StreamOver(t) =>
              /\ Times(events[t], "post") = 1
              /\ outcomes[t][1].how \in {"handle", "timeout", "connect"}
                     => raised[t] = AttemptError(outcomes[t][1])

\* C35, amended: chat_stream makes exactly one wait_if_needed call and at
\* most one transport call per invocation, exactly one when the HttpClient
\* was initialised and the request is valid and none otherwise; it never
\* retries or sleeps for backoff, and the exception of the failed
\* initialisation, validation or post leaves chat_stream as it is.
C35_OneAdmitAtMostOnePost ==
    \A t \in Clients :
        /\ caller[t] = "stream" => SingleAttempt(t)
        /\ StreamOver(t) =>
              LET o == outcomes[t][1]
                  valid == ChatRequest_validate(request) = NoError
              IN /\ Times(events[t], "post")
                        = (IF o.how # "handle" /\ valid THEN 1 ELSE 0)
                 /\ o.how = "handle" => raised[t] = NetworkError(0, "initialize")
                 /\ o.how # "handle" /\ ~valid
                        => raised[t] = ValidationError("validate")
                 /\ o.how \in {"timeout", "connect"} /\ valid
                        => raised[t] = AttemptError(o)

\* a chat_stream call that was admitted by an enabled limiter, posted once
\* and ended in the timeout of that post
C35_Witness ==
    \E t \in Clients :
        /\ StreamOver(t)
        /\ sawEnabled[t]
        /\ pushed[t] = 1
        /\ Times(events[t], "post") = 1
        /\ raised[t] = TimeoutError("post")


\* ---------------------------------------------------------------- C36
\* the positions of the lines "data: [DONE]" that a blank line ends
DoneAt(lines) ==
    {i \in 1..(Len(lines) - 1) :
        lines[i] = DataLine(DoneText) /\ lines[i + 1] = <<>>}

FirstDone(lines) == CHOOSE i \in DoneAt(lines) : \A j \in DoneAt(lines) : i <= j

IsData(line) == Len(line) >= 6 /\ SubSeq(line, 1, 6) = DataPrefix

\* the texts of the data events in the first n lines, in order
RECURSIVE DataTexts(_, _)
DataTexts(lines, n) ==
    IF n = 0 THEN <<>>
    ELSE IF IsData(lines[n])
    THEN Append(DataTexts(lines, n - 1), SubSeq(lines[n], 7, Len(lines[n])))
    ELSE DataTexts(lines, n - 1)

\* thread t has read a response that holds the end mark, with JSON in every
\* data event before it
ReadToDone(t) ==
    /\ calls[t] = 1
    /\ DoneAt(stream[t]) # {}
    /\ LET texts == DataTexts(stream[t], FirstDone(stream[t]) - 1)
       IN  \A i \in DOMAIN texts : texts[i] \in JsonTexts

\* C36: when the response holds the event "data: [DONE]" ended by a blank
\* line, chat_stream stops there without raising an error and without giving
\* that event to the callback: the callback has been invoked once, in the
\* order of the stream, for each data event before it and for none after it.
C36_StopsAtDone ==
    \A t \in Clients :
        ReadToDone(t) =>
            /\ raised[t] = NoError
            /\ delivered[t] = DataTexts(stream[t], FirstDone(stream[t]) - 1)


\* ---------------------------------------------------------------- C37
\* thread t has called chat with a request that validate rejects
ChatInvalid(t) ==
    /\ calls[t] >= 1
    /\ ChatRequest_validate(request) # NoError

\* C37: chat called with an invalid ChatRequest (no model, or no message)
\* raises ValidationError without invoking the transport, without a retry or
\* a backoff sleep, and without recording a time point in the window of the
\* rate limiter.
C37_InvalidLeavesNoTrace ==
    \A t \in Clients :
        ChatInvalid(t) =>
            /\ \A i \in DOMAIN outcomes[t] :
                  outcomes[t][i].how \notin {"timeout", "connect", "response"}
            /\ Len(outcomes[t]) <= 1
            /\ slept[t] = <<>>
            /\ Times(events[t], "stamp") = 0
            /\ Finished(t) => raised[t] = ValidationError("validate")

====
